---- MODULE Spec2Model ----
(***************************************************************************)
(* Bern RTOS kernel: scheduler, events, mutex, semaphore and the SPSC ring *)
(* buffer, modelled as state machines from the kernel sources.             *)
(*                                                                         *)
(* One CPU.  A thread runs in unprivileged thread mode; syscalls (SVC),    *)
(* the system tick and interrupt handlers run to completion in handler     *)
(* mode; the deferred context switch (PendSV) has the lowest exception     *)
(* priority, so it runs as soon as no other handler is active and before   *)
(* the thread executes another instruction.                                *)
(***************************************************************************)
EXTENDS Integers, Sequences, FiniteSets, TLC

(***************************************************************************)
(* Program constants.                                                      *)
(***************************************************************************)
\* CONF.kernel.priorities
P == 8
\* content of a slot never written (MaybeUninit::uninit())
Uninit == 0
\* null pointer of a list link
NULL == 0
\* first thread id handed out; sched::init() spawns the idle thread with it
IdleId == 1
\* smallest MPU region: size of the stack guard
MinRegionSize == 32
\* bytes PendSV pushes below psp (r2-r11: lr, control, r4-r11)
PushSize == 40
\* bytes of the initial frame (StackFrame + StackFrameExtension + StackSettings)
InitFrameSize == 72
\* bytes of the trait-object pointer ThreadBuilder::build copies to the stack
EntryPtrSize == 8
\* bytes the hardware stacks on exception entry (StackFrame)
HwFrameSize == 32
\* time-slicing is a default cargo feature
TimeSlicing == TRUE
\* length of InterruptHandler.irqn
IrqSlots == 16
\* an empty slot of InterruptHandler.irqn
NoIrq == 0
\* MIN_FREE_SIZE: size_of::<Node<Free>>() with 32-bit pointers
MinFreeSize == 12

(***************************************************************************)
(* Bounds of the model.                                                    *)
(***************************************************************************)
\* slots N of the ring buffer ConstQueue<T, N>
QueueSlots == 3
\* values the producer pushes: 1..MaxPush
MaxPush == 4
\* permits of the semaphore (Semaphore::new(permits))
SemPermits == 1
\* threads besides the idle thread that may exist at all
MaxThreads == 4
\* user threads of the scheduler specification
NSched == 2
\* the tick counter stops here
MaxTick == 3
\* longest sleep, in ticks
MaxSleep == 2
\* events that can be registered
MaxEvents == 2
\* lowest user priority value used by the scheduler specification
MaxPrio == 1
\* kernel interrupt handlers that can be registered
MaxHandlers == 2
\* processes the application declares
MaxProcs == 3
\* address and size in bytes of the memory block of the Bump allocator
BumpStart == 64
BumpCapacity == 16
\* alloc and dealloc calls made on one allocator
MaxAllocOps == 5
\* address of the first partition's memory, and blocks per partition
PoolBase == 256
PoolBlocks == 2
\* address and size in bytes of the memory of the Heap
HeapStart == 120
HeapSize == 60
\* calls of Process::init
MaxInitCalls == 4
\* bits of a word of the tick counter in the model (AtomicU32 scaled down),
\* and the calls of system_tick_update
WordBits == 2
MaxWordTicks == 5
\* slots of the ConstPool the work items come from, and calls of submit
MaxItems == 2
MaxSubmits == 3
\* lock-free queue: nodes and calls of its operations
MaxLqNodes == 3
MaxLqCalls == 7
\* MPSC ring buffer: calls of try_push_back
MaxMqPush == 4
\* ConstPool<T, N>: the number N of items
MaxPoolItems == 3
\* global allocator: requests made
MaxRequests == 4

Threads == 1..(MaxThreads + 1)
\* the contexts that call an allocator concurrently: a thread and an
\* interrupt handler
Contexts == 1..2
\* Pool<2>: the partitions, in array order
PoolParts == 1..2
\* the addresses at which a free node of the heap can start
HeapAddrs == {HeapStart + MinFreeSize * k : k \in 0..(HeapSize \div MinFreeSize - 1)}
\* Heap::empty and init_from_slice: one free block, the whole slice
HeapInit ==
  [list |-> [l \in {"free"} |->
               [head |-> HeapStart, tail |-> HeapStart, len |-> 1]],
   node |-> [a \in HeapAddrs |-> [prev |-> 0, next |-> 0]],
   size |-> [a \in HeapAddrs |-> IF a = HeapStart THEN HeapSize ELSE 0],
   held |-> {}, panicked |-> FALSE]
UserThreads == Threads \ {IdleId}
Events == 1..MaxEvents
Priorities == 0..(P - 1)

\* Priority::IDLE and Priority::LOWEST
PrioIdle == P - 1
PrioLowest == P - 2

(***************************************************************************)
(* Stacks.  Every thread owns one stack; the linker or the process         *)
(* allocator places them at distinct, aligned addresses.                   *)
(***************************************************************************)
StackBottom(t) == 1024 * t

AlignDown(a, n) == a - (a % n)

VARIABLES
  kstate,          \* KERNEL.state: "Startup" | "Running"
  cpu,             \* "main" (privileged, before start) | "thread" | "pendsv"
  pendsv,          \* PendSV pending bit (SCB::set_pendsv)
  sv_sp,           \* stack pointer PendSV hands to switch_context (0: overflow)
  task_running,    \* Scheduler.task_running (NULL: None)
  list,            \* the scheduler's linked lists: head, tail, len
  node,            \* prev/next links of each thread's list node
  task_id_counter, \* Scheduler.task_id_counter
  event_counter,   \* Scheduler.event_counter; events 1..event_counter exist
  priority,        \* Runnable.priority
  transition,      \* Runnable.transition
  next_wut,        \* Runnable.next_wut
  blocking_event,  \* Runnable.blocking_event (NULL: None)
  stack_size,      \* Stack.size
  stack_ptr,       \* Stack.ptr
  tick,            \* TICK_HIGH:TICK_LOW
  mpu_enabled,     \* MPU control register enable bit
  mpu_regions,     \* per-thread MPU regions 0..1 currently programmed
  pc,              \* where each thread stands inside lock/unlock/acquire/release
  mutex_lock,      \* Mutex.lock
  mutex_id,        \* Mutex.id
  guards,          \* MutexGuards each thread holds
  sem_issued,      \* Semaphore.permits_issued
  sem_id,          \* Semaphore.id
  permits_held,    \* SemaphorePermits each thread holds
  acq_old,         \* value fetch_add returned to a thread inside raw_acquire
  wake_at,         \* history: tick + n of each thread's last sleep(n)
  waiters,         \* history: per event, the threads waiting, in arrival order
  fire_log,        \* history: the last event_fire: woken thread and waiters before
  q_data,          \* ConstQueue.data
  q_writer,        \* ConstQueue.writer
  q_reader,        \* ConstQueue.reader
  prod,            \* the producer inside try_push_back: pc and locals
  cons,            \* the consumer inside try_pop_front: pc and locals
  pushed,          \* history: the values whose push was accepted, in order
  popped,          \* history: the values returned by pop, in order
  slice_log,       \* history: the last tick found an equal-priority thread ready
  interrupt_handlers, \* Scheduler.interrupt_handlers
  ib,              \* the InterruptBuilder a thread is filling in
  irq_log,         \* history: the last interrupt and the handler calls it made
  processes,       \* Kernel.processes, in list order
  init_process,    \* Kernel.init_process (NULL: null)
  proc_log,        \* history: the last call of Process::init and its outcome
  await_log,       \* history: each thread's last event_await: timeout, deadline,
                   \* whether the id was registered, and the result it got
  bump,            \* a Bump allocator: current, wastage
  bump_ctx,        \* the callers inside Bump::alloc: pc, old, layout
  bump_log,        \* history: the last alloc or dealloc call that returned
  pool,            \* a Pool: its partitions, and (history) the blocks allocated
  heap,            \* a Heap: free list, block sizes, and (history) allocations
  tk,              \* TICK_HIGH, TICK_LOW, the positions inside system_tick_update
                   \* and tick_count, and (history) the last value returned
  held,            \* history: the nodes put into the list that SpecList operates
                   \* on and not yet taken out of it
  lq,              \* a lock-free Queue, the callers inside its operations, and
                   \* (history) the nodes pushed and popped
  mq,              \* an MPSC ConstQueue, its producers and its consumer inside
                   \* their calls, and (history) the pushes and pops that
                   \* returned Ok
  cp,              \* ConstPool: the lock of each Item, each context inside
                   \* try_acquire, and the ConstBoxes each context holds
  ga,              \* global allocator (history): the init closures executing,
                   \* the blocks served from each process, the last request
  wq               \* a Workqueue: its queue of work items, the state of each
                   \* item, and (history) how often it was submitted and processed

sched_vars == <<kstate, cpu, pendsv, sv_sp, task_running, list, node,
                task_id_counter, event_counter, priority, transition, next_wut,
                blocking_event, stack_size, stack_ptr, tick, mpu_enabled,
                mpu_regions>>
sync_vars == <<pc, mutex_lock, mutex_id, guards, sem_issued, sem_id,
               permits_held, acq_old>>
hist_vars == <<wake_at, waiters, fire_log>>
\* the ring buffer ConstQueue and its history
queue_vars == <<q_data, q_writer, q_reader, prod, cons, pushed, popped>>
\* the kernel's data structures outside the scheduler
irq_vars == <<interrupt_handlers, ib, irq_log>>
proc_vars == <<processes, init_process, proc_log>>
\* what event_await with a timeout leaves alone outside the scheduler
bump_vars == <<bump, bump_ctx, bump_log>>
alloc_vars == <<bump_vars, pool, heap>>
\* the workqueue, the tick counter words and the list under test
late_vars == <<wq, tk, held, lq, mq, cp, ga>>
noawait_vars == <<queue_vars, slice_log, late_vars, irq_vars, proc_vars,
                  alloc_vars>>
ext_vars == <<irq_vars, proc_vars, await_log, alloc_vars>>
mem_vars == <<queue_vars, slice_log, late_vars, ext_vars>>

(***************************************************************************)
(* The intrusive doubly-linked list (mem/linked_list.rs).  A list memory M *)
(* is [list |-> heads/tails/lengths, node |-> links].                      *)
(***************************************************************************)
Ready(p) == <<"ready", p>>
Sleeping == <<"sleeping", 0>>
Terminated == <<"terminated", 0>>
Pending(e) == <<"pending", e>>
ListIds == {Ready(p) : p \in Priorities} \cup {Sleeping, Terminated}
             \cup {Pending(e) : e \in Events}

EmptyList == [head |-> NULL, tail |-> NULL, len |-> 0]
EmptyNode == [prev |-> NULL, next |-> NULL]

\* a push that links the node in at the front
push_front(M, l, n) ==
  LET hd == M.list[l].head
      nd1 == [M.node EXCEPT ![n].next = hd]
      nd2 == IF hd = NULL THEN nd1 ELSE [nd1 EXCEPT ![hd].prev = n]
      tl == IF hd = NULL THEN n ELSE M.list[l].tail
  IN [list |-> [M.list EXCEPT ![l] = [head |-> n, tail |-> tl, len |-> @.len + 1]],
      node |-> nd2]

push_back(M, l, n) ==
  LET tl == M.list[l].tail
      nd1 == [M.node EXCEPT ![n].prev = tl]
      nd2 == IF tl = NULL THEN nd1 ELSE [nd1 EXCEPT ![tl].next = n]
      hd == IF tl = NULL THEN n ELSE M.list[l].head
  IN [list |-> [M.list EXCEPT ![l] = [head |-> hd, tail |-> n, len |-> @.len + 1]],
      node |-> nd2]

\* pop_front: the list memory afterwards and the node taken (NULL: None)
pop_front(M, l) ==
  LET n == M.list[l].head
      nx == M.node[n].next
      nd1 == IF nx = NULL THEN M.node ELSE [M.node EXCEPT ![nx].prev = NULL]
      tl == IF M.list[l].tail = n THEN nx ELSE M.list[l].tail
  IN IF n = NULL
     THEN [m |-> M, out |-> NULL]
     ELSE [m |-> [list |-> [M.list EXCEPT ![l] =
                              [head |-> nx, tail |-> tl, len |-> @.len - 1]],
                  node |-> [nd1 EXCEPT ![n].next = NULL]],
           out |-> n]

\* insert new_node exactly before at
insert(M, l, at, new_node) ==
  LET pv == M.node[at].prev
      nd1 == IF pv = NULL THEN M.node ELSE [M.node EXCEPT ![pv].next = new_node]
      hd == IF pv = NULL THEN new_node ELSE M.list[l].head
  IN [list |-> [M.list EXCEPT ![l].head = hd, ![l].len = @ + 1],
      node |-> [nd1 EXCEPT ![at].prev = new_node, ![new_node].next = at]]

\* the nodes reached from cur by next links
RECURSIVE Chain(_, _, _)
Chain(nd, cur, fuel) ==
  IF cur = NULL \/ fuel = 0 THEN <<>>
  ELSE <<cur>> \o Chain(nd, nd[cur].next, fuel - 1)

Nodes(M, l) == Chain(M.node, M.list[l].head, Cardinality(Threads))

\* insert before the first node the criteria holds for, else at the back
\* (criteria[n]: the closure's result for new_node and the node n)
insert_when(M, l, new_node, criteria) ==
  LET s == Nodes(M, l)
      hits == {i \in 1..Len(s) : criteria[s[i]]}
      first == CHOOSE i \in hits : \A j \in hits : i <= j
  IN IF hits = {} THEN push_back(M, l, new_node)
     ELSE insert(M, l, s[first], new_node)

unlink_raw(M, l, n) ==
  LET pv == M.node[n].prev
      nx == M.node[n].next
      nd1 == IF pv = NULL THEN M.node ELSE [M.node EXCEPT ![pv].next = nx]
      nd2 == IF nx = NULL THEN nd1 ELSE [nd1 EXCEPT ![nx].prev = pv]
      hd == IF pv = NULL THEN nx ELSE M.list[l].head
      tl == IF nx = NULL THEN pv ELSE M.list[l].tail
  IN [list |-> [M.list EXCEPT ![l] = [head |-> hd, tail |-> tl, len |-> @.len - 1]],
      node |-> [nd2 EXCEPT ![n] = EmptyNode]]

\* the scheduler's lists as they are
Mem == [list |-> list, node |-> node]


(***************************************************************************)
(* Threads (exec/thread.rs, exec/runnable.rs, stack.rs).                   *)
(***************************************************************************)
\* every thread belongs to one process; the idle thread to the idle process
ProcessOf(t) == IF t = IdleId THEN 1 ELSE 2 + (t % 2)

\* Runnable::new: process region (read/write) and stack guard (no access)
MemoryRegions(t) == [process |-> ProcessOf(t), guard |-> StackBottom(t)]
\* Kernel::setup_memory_regions leaves regions 0..2 disabled
NoRegions == [process |-> NULL, guard |-> NULL]

\* the MPU left as it is programmed
KeepRegions(t) == mpu_regions

\* Arch::apply_regions(t.memory_regions()): the regions programmed
apply_regions(t) == MemoryRegions(t)

\* ThreadBuilder::spawn and ThreadBuilder::build: the closure goes to the top
\* of the stack, the trait-object pointer below it, both 8-byte aligned
BuildStackPtr(t, size, entry_size) ==
  AlignDown(AlignDown(StackBottom(t) + size - entry_size, 8) - EntryPtrSize, 8)

\* Arch::init_task_stack: the stack pointer below the initial frame
init_task_stack(ptr) == ptr - InitFrameSize

\* a wake-up time that ignores the duration
SleepNoDelay(now, ms) == now

\* Runnable::sleep: the next wake-up time
RunnableSleep(now, ms) == now + ms

\* check_stack: Sufficient (TRUE) or Insufficient (FALSE)
check_stack(t, sp) == sp > StackBottom(t) + MinRegionSize

\* where psp may stand when PendSV is taken: the idle loop uses no stack; a
\* user thread may be anywhere, down to an overflow into the guard
Shallow(t) == StackBottom(t) + stack_size[t] - EntryPtrSize - HwFrameSize
PspChoices(t) ==
  IF t = IdleId THEN {Shallow(t)}
  ELSE {StackBottom(t) + MinRegionSize + PushSize,
        StackBottom(t) + MinRegionSize + PushSize + 4,
        Shallow(t)}

(***************************************************************************)
(* Scheduler (sched.rs).                                                   *)
(***************************************************************************)
\* criteria of the sleep queue: strictly earlier wake-up
WakesBefore(a, b) == next_wut[a] < next_wut[b]
\* criteria of an event's waiter list: strictly higher priority
HigherPrio(a, b) == priority[a] < priority[b]

\* sched::start: front of the first non-empty ready queue
StartFirst(M) ==
  LET ne == {p \in Priorities : M.list[Ready(p)].len > 0}
      p0 == CHOOSE p \in ne : \A q \in ne : p <= q
  IN IF ne = {} THEN [m |-> M, out |-> NULL] ELSE pop_front(M, Ready(p0))

\* a selection that scans the ready queues from the idle priority upwards
SelectLast(M) ==
  LET ne == {p \in Priorities : M.list[Ready(p)].len > 0}
      p0 == CHOOSE p \in ne : \A q \in ne : p >= q
  IN IF ne = {} THEN [m |-> M, out |-> NULL] ELSE pop_front(M, Ready(p0))

\* switch_context, "Load the next task": front of the first non-empty ready
\* queue scanning from priority 0; out = NULL when every queue is empty
SelectNext(M) ==
  LET ne == {p \in Priorities : M.list[Ready(p)].len > 0}
      p0 == CHOOSE p \in ne : \A q \in ne : p <= q
  IN IF ne = {} THEN [m |-> M, out |-> NULL] ELSE pop_front(M, Ready(p0))

\* a routing that puts a terminating thread back into its ready queue
RouteTerminatingReady(M, t, tr) ==
  CASE tr \in {"None", "Terminating"} -> push_back(M, Ready(priority[t]), t)
    [] tr = "Sleeping" ->
         insert_when(M, Sleeping, t, [n \in Threads |-> WakesBefore(t, n)])
    [] tr = "Blocked" ->
         insert_when(M, Pending(blocking_event[t]), t,
                     [n \in Threads |-> HigherPrio(t, n)])
    [] OTHER -> M

\* switch_context, "Put the running task into its next state"
Route(M, t, tr) ==
  CASE tr = "None" -> push_back(M, Ready(priority[t]), t)
    [] tr = "Sleeping" ->
         insert_when(M, Sleeping, t, [n \in Threads |-> WakesBefore(t, n)])
    [] tr = "Blocked" ->
         insert_when(M, Pending(blocking_event[t]), t,
                     [n \in Threads |-> HigherPrio(t, n)])
    [] tr = "Terminating" -> push_back(M, Terminated, t)
    [] OTHER -> M

\* tick_update, the cursor loop over the sleep queue: the list memory
\* afterwards and whether a woken thread preempts
RECURSIVE WakeSleepers(_, _, _, _)
WakeSleepers(M, cur, now, preempt_prio) ==
  IF cur = NULL \/ next_wut[cur] > now
  THEN [m |-> M, trig |-> FALSE]
  ELSE LET nx == M.node[cur].next
           M1 == unlink_raw(M, Sleeping, cur)
           M2 == push_back(M1, Ready(priority[cur]), cur)
           r == WakeSleepers(M2, nx, now, preempt_prio)
       IN [m |-> r.m, trig |-> r.trig \/ priority[cur] < preempt_prio]

\* tick_update built without the feature "time-slicing"
tick_update_no_slicing(M, now) ==
  LET preempt_prio == priority[task_running]
      r == WakeSleepers(M, M.list[Sleeping].head, now, preempt_prio)
      slice == r.m.list[Ready(preempt_prio)].len > 0 /\ preempt_prio # 0
  IN [m |-> r.m, trig |-> r.trig, slice |-> slice]

\* tick_update: the list memory afterwards, whether a switch is requested and
\* whether the time-slicing condition held
tick_update(M, now) ==
  LET preempt_prio == priority[task_running]
      r == WakeSleepers(M, M.list[Sleeping].head, now, preempt_prio)
      slice == r.m.list[Ready(preempt_prio)].len > 0 /\ preempt_prio # 0
  IN [m |-> r.m, trig |-> r.trig \/ (TimeSlicing /\ slice), slice |-> slice]

\* event_fire that takes the waiter of the first event, whatever the id
event_fire_first(M, id) ==
  IF id \in 1..event_counter
  THEN LET r == pop_front(M, Pending(1))
       IN [m |-> IF r.out = NULL THEN M
                 ELSE push_back(r.m, Ready(priority[r.out]), r.out),
           woken |-> r.out, switch |-> TRUE]
  ELSE [m |-> M, woken |-> NULL, switch |-> FALSE]

\* event_fire: the list memory afterwards, the thread woken (NULL: none) and
\* whether a switch is requested
event_fire(M, id) ==
  IF id \in 1..event_counter
  THEN LET r == pop_front(M, Pending(id))
       IN [m |-> IF r.out = NULL THEN M
                 ELSE push_back(r.m, Ready(priority[r.out]), r.out),
           woken |-> r.out, switch |-> TRUE]
  ELSE [m |-> M, woken |-> NULL, switch |-> FALSE]

\* a thread in thread mode about to execute its next instruction
UserStep(t) ==
  /\ kstate = "Running" /\ cpu = "thread" /\ ~pendsv
  /\ task_running = t /\ t # IdleId
\* ... and outside lock, unlock, acquire and release
UserCall(t) == UserStep(t) /\ pc[t] = "run"

Init ==
  /\ kstate = "Startup" /\ cpu = "main" /\ pendsv = FALSE /\ sv_sp = 0
  /\ task_running = NULL
  /\ list = [l \in ListIds |->
               IF l = Ready(PrioIdle)
               THEN [head |-> IdleId, tail |-> IdleId, len |-> 1] ELSE EmptyList]
  /\ node = [t \in Threads |-> EmptyNode]
  /\ task_id_counter = IdleId + 1
  /\ event_counter = 0
  /\ priority = [t \in Threads |-> PrioIdle]
  /\ transition = [t \in Threads |-> "None"]
  /\ next_wut = [t \in Threads |-> 0]
  /\ blocking_event = [t \in Threads |-> NULL]
  /\ stack_size = [t \in Threads |-> 256]
  /\ stack_ptr = [t \in Threads |->
                    init_task_stack(BuildStackPtr(t, 256, 0))]
  /\ tick = 0
  /\ mpu_enabled = FALSE /\ mpu_regions = NoRegions
  /\ pc = [t \in Threads |-> "run"]
  /\ mutex_lock = FALSE /\ mutex_id = 0
  /\ guards = [t \in Threads |-> 0]
  /\ sem_issued = 0 /\ sem_id = 0
  /\ permits_held = [t \in Threads |-> 0]
  /\ acq_old = [t \in Threads |-> 0]
  /\ wake_at = [t \in Threads |-> 0]
  /\ waiters = [e \in Events |-> <<>>]
  /\ fire_log = [woken |-> NULL, before |-> <<>>]
  /\ q_data = [i \in 0..(QueueSlots - 1) |-> Uninit]
  /\ q_writer = 0 /\ q_reader = 0
  /\ prod = [pc |-> "idle", writer |-> 0, reader |-> 0, todo |-> {}]
  /\ cons = [pc |-> "idle", writer |-> 0, reader |-> 0, todo |-> {}]
  /\ pushed = <<>> /\ popped = <<>>
  /\ slice_log = FALSE
  /\ interrupt_handlers = <<>>
  /\ ib = [stack |-> "None", irqn |-> [i \in 1..IrqSlots |-> NoIrq],
           asked |-> {}]
  /\ irq_log = [irqn |-> NoIrq, calls |-> <<>>, handlers |-> 0]
  /\ processes = <<>> /\ init_process = NULL
  /\ await_log = [t \in Threads |->
                   [timeout |-> 0, until |-> 0, known |-> TRUE, ret |-> "None"]]
  /\ bump = [current |-> BumpStart, wastage |-> 0]
  /\ bump_ctx = [c \in Contexts |-> [pc |-> "idle", old |-> 0,
                                       layout |-> <<0, 0>>]]
  /\ bump_log = [seq |-> 0, op |-> "None", size |-> 0]
  /\ pool = [part |-> [i \in PoolParts |->
                         [free |-> <<>>, len |-> 0, capacity |-> 0,
                          start |-> NULL, end |-> NULL]],
             held |-> {}]
  /\ heap = HeapInit
  /\ tk = [high |-> 0, low |-> 0, pc |-> "idle",
           rd |-> [pc |-> "idle", high |-> 0, low |-> 0, from |-> 0,
                   last |-> 0],
           ret |-> [val |-> 0, from |-> 0, to |-> 0, prev |-> 0,
                    nested |-> FALSE]]
  /\ held = {}
  /\ ga = [closures |-> <<>>, calls |-> 0,
          usage |-> [p \in 1..MaxProcs |-> 0],
          req |-> [op |-> "none", state |-> "Startup", served |-> NULL]]
  /\ cp = [lock |-> [i \in 1..MaxPoolItems |-> FALSE],
          ctx |-> [c \in Contexts |-> [pc |-> "idle", i |-> 0]],
          boxes |-> [c \in Contexts |-> [i \in 1..MaxPoolItems |-> 0]]]
  /\ mq = [writer |-> 0, staging |-> 0, reader |-> 0, reader_limit |-> 0,
          data |-> [i \in 0..(QueueSlots - 1) |-> "none"],
          prod |-> [c \in 1..2 |-> [pc |-> "idle", reader |-> 0,
                                    writer |-> 0, limit |-> 0, full |-> FALSE]],
          cons |-> [pc |-> "idle", reader |-> 0],
          calls |-> 0, ok |-> 0, got |-> 0, early |-> FALSE]
  /\ lq = [head |-> NULL, next |-> [n \in 1..MaxLqNodes |-> NULL], len |-> 0,
          ctx |-> [c \in 1..2 |-> [pc |-> "idle", node |-> NULL,
                                   head |-> NULL, next |-> NULL]],
          owner |-> [n \in 1..MaxLqNodes |-> "out"],
          pushed |-> <<>>, popped |-> <<>>, front |-> FALSE,
          twice |-> FALSE, calls |-> 0]
  /\ wq = [event_id |-> 0, worker |-> NULL, queue |-> <<>>, cur |-> 0,
           calls |-> 0,
           lock |-> [i \in 1..MaxItems |-> FALSE],
           sub |-> [i \in 1..MaxItems |-> 0],
           done |-> [i \in 1..MaxItems |-> 0]]
  /\ proc_log = [calls |-> 0, process |-> NULL, state |-> "Startup",
                 before |-> <<>>, result |-> "None", ran |-> FALSE]

\* ThreadBuilder::spawn, build and sched::add_task, during startup or as the
\* TaskSpawn syscall of the running thread
Spawn(t, prio, size, entry_size) ==
  /\ cpu = "main" \/ \E u \in UserThreads : UserCall(u)
  /\ t = task_id_counter /\ t \in Threads
  /\ prio <= PrioLowest
  /\ size >= entry_size
  /\ task_id_counter' = task_id_counter + 1
  /\ priority' = [priority EXCEPT ![t] = prio]
  /\ stack_size' = [stack_size EXCEPT ![t] = size]
  /\ stack_ptr' = [stack_ptr EXCEPT ![t] =
                     init_task_stack(BuildStackPtr(t, size, entry_size))]
  /\ LET M == push_back(Mem, Ready(prio), t)
     IN list' = M.list /\ node' = M.node
  /\ UNCHANGED <<kstate, cpu, pendsv, sv_sp, task_running, event_counter,
                 transition, next_wut, blocking_event, tick, mpu_enabled,
                 mpu_regions>>
  /\ UNCHANGED <<sync_vars, hist_vars>>
  /\ UNCHANGED mem_vars

\* sched::event_register
EventRegister ==
  /\ cpu = "main"
  /\ event_counter < MaxEvents
  /\ event_counter' = event_counter + 1
  /\ UNCHANGED <<kstate, cpu, pendsv, sv_sp, task_running, list, node,
                 task_id_counter, priority, transition, next_wut,
                 blocking_event, stack_size, stack_ptr, tick, mpu_enabled,
                 mpu_regions>>
  /\ UNCHANGED <<sync_vars, hist_vars>>
  /\ UNCHANGED mem_vars

\* Kernel::start and sched::start
Start ==
  /\ cpu = "main" /\ kstate = "Startup"
  /\ LET r == StartFirst(Mem)
     IN /\ r.out # NULL
        /\ list' = r.m.list /\ node' = r.m.node
        /\ task_running' = r.out
        /\ mpu_regions' = apply_regions(r.out)
  /\ mpu_enabled' = TRUE
  /\ kstate' = "Running"
  /\ cpu' = "thread"
  /\ UNCHANGED <<pendsv, sv_sp, task_id_counter, event_counter, priority,
                 transition, next_wut, blocking_event, stack_size, stack_ptr,
                 tick>>
  /\ UNCHANGED <<sync_vars, hist_vars>>
  /\ UNCHANGED mem_vars

\* syscall sleep(ms): sched::sleep
SysSleep(t, ms) ==
  /\ UserCall(t)
  /\ next_wut' = [next_wut EXCEPT ![t] = RunnableSleep(tick, ms)]
  /\ transition' = [transition EXCEPT ![t] = "Sleeping"]
  /\ pendsv' = TRUE
  /\ wake_at' = [wake_at EXCEPT ![t] = tick + ms]
  /\ UNCHANGED <<kstate, cpu, sv_sp, task_running, list, node,
                 task_id_counter, event_counter, priority, blocking_event,
                 stack_size, stack_ptr, tick, mpu_enabled, mpu_regions>>
  /\ UNCHANGED <<sync_vars, waiters, fire_log>>
  /\ UNCHANGED mem_vars

\* syscall yield_now(): sched::yield_now
SysYield(t) ==
  /\ UserCall(t)
  /\ pendsv' = TRUE
  /\ UNCHANGED <<kstate, cpu, sv_sp, task_running, list, node,
                 task_id_counter, event_counter, priority, transition,
                 next_wut, blocking_event, stack_size, stack_ptr, tick,
                 mpu_enabled, mpu_regions>>
  /\ UNCHANGED <<sync_vars, hist_vars>>
  /\ UNCHANGED mem_vars

\* sched::task_terminate, for the running thread t
task_terminate(t) ==
  /\ transition' = [transition EXCEPT ![t] = "Terminating"]
  /\ pendsv' = TRUE
  /\ UNCHANGED <<kstate, cpu, sv_sp, task_running, list, node,
                 task_id_counter, event_counter, priority, next_wut,
                 blocking_event, stack_size, stack_ptr, tick, mpu_enabled,
                 mpu_regions>>
  /\ UNCHANGED <<sync_vars, hist_vars>>
  /\ UNCHANGED mem_vars

\* syscall task_exit(), also reached by returning from the entry closure
SysExit(t) == UserCall(t) /\ task_terminate(t)

\* MemoryManagement exception: the running thread touched memory outside its
\* regions; memory_protection_exception
MemFault(t) == UserStep(t) /\ mpu_enabled /\ task_terminate(t)


\* SysTick exception: time::system_tick_update and sched::tick_update
Tick ==
  /\ kstate = "Running" /\ cpu \in {"thread", "pendsv"}
  /\ tick < MaxTick
  /\ tick' = tick + 1
  /\ LET r == tick_update(Mem, tick + 1)
     IN /\ list' = r.m.list /\ node' = r.m.node
        /\ pendsv' = (pendsv \/ r.trig)
        /\ slice_log' = r.slice
  /\ UNCHANGED <<kstate, cpu, sv_sp, task_running, task_id_counter,
                 event_counter, priority, transition, next_wut,
                 blocking_event, stack_size, stack_ptr, mpu_enabled,
                 mpu_regions>>
  /\ UNCHANGED <<sync_vars, hist_vars>>
  /\ UNCHANGED <<queue_vars, late_vars, ext_vars>>

\* sched::event_await for the running thread t; the timeout is not used.
\* TRUE in ok iff the id is registered
event_await(t, id) ==
  IF id \in 1..event_counter
  THEN /\ blocking_event' = [blocking_event EXCEPT ![t] = id]
       /\ transition' = [transition EXCEPT ![t] = "Blocked"]
       /\ pendsv' = TRUE
  ELSE UNCHANGED <<blocking_event, transition, pendsv>>

\* syscall event_await(id, timeout)
SysEventAwait(t, id) ==
  /\ UserCall(t)
  /\ event_await(t, id)
  /\ UNCHANGED <<kstate, cpu, sv_sp, task_running, list, node,
                 task_id_counter, event_counter, priority, next_wut,
                 stack_size, stack_ptr, tick, mpu_enabled, mpu_regions>>
  /\ UNCHANGED <<sync_vars, hist_vars>>
  /\ UNCHANGED mem_vars

\* the effect of sched::event_fire(id) on the scheduler and on the history
DoEventFire(id) ==
  LET r == event_fire(Mem, id)
  IN /\ list' = r.m.list /\ node' = r.m.node
     /\ pendsv' = (pendsv \/ r.switch)
     /\ IF id \in Events
        THEN /\ fire_log' = [woken |-> r.woken, before |-> waiters[id]]
             /\ waiters' = [waiters EXCEPT ![id] =
                              SelectSeq(@, LAMBDA w : w # r.woken)]
        ELSE UNCHANGED <<fire_log, waiters>>

\* syscall event_fire(id) of the running thread
SysEventFire(t, id) ==
  /\ UserCall(t)
  /\ DoEventFire(id)
  /\ UNCHANGED <<kstate, cpu, sv_sp, task_running, task_id_counter,
                 event_counter, priority, transition, next_wut,
                 blocking_event, stack_size, stack_ptr, tick, mpu_enabled,
                 mpu_regions>>
  /\ UNCHANGED <<sync_vars, wake_at>>
  /\ UNCHANGED mem_vars

\* event_fire(id) from an interrupt service routine
IsrEventFire(id) ==
  /\ kstate = "Running" /\ cpu \in {"thread", "pendsv"}
  /\ DoEventFire(id)
  /\ UNCHANGED <<kstate, cpu, sv_sp, task_running, task_id_counter,
                 event_counter, priority, transition, next_wut,
                 blocking_event, stack_size, stack_ptr, tick, mpu_enabled,
                 mpu_regions>>
  /\ UNCHANGED <<sync_vars, wake_at>>
  /\ UNCHANGED mem_vars

\* PendSV exception, up to the call of switch_context: check_stack on the
\* stack pointer the register push would reach, then the push; switch_context
\* begins by disabling the MPU
PendSVEntry(psp) ==
  /\ kstate = "Running" /\ cpu = "thread" /\ pendsv
  /\ pendsv' = FALSE
  /\ sv_sp' = IF check_stack(task_running, psp - PushSize)
              THEN psp - PushSize ELSE 0
  /\ mpu_enabled' = FALSE
  /\ cpu' = "pendsv"
  /\ UNCHANGED <<kstate, task_running, list, node, task_id_counter,
                 event_counter, priority, transition, next_wut,
                 blocking_event, stack_size, stack_ptr, tick, mpu_regions>>
  /\ UNCHANGED <<sync_vars, hist_vars>>
  /\ UNCHANGED mem_vars

\* the transition switch_context acts on: a stack pointer of 0 forces
\* Terminating
Effective(t) == IF sv_sp = 0 THEN "Terminating" ELSE transition[t]

\* switch_context: the critical section, then the MPU is enabled again and
\* PendSV returns to the selected thread
SwitchContext ==
  /\ cpu = "pendsv"
  /\ LET pausing == task_running
         tr == Effective(pausing)
         M1 == Route(Mem, pausing, tr)
         r == SelectNext(M1)
     IN /\ stack_ptr' = IF sv_sp = 0 THEN stack_ptr
                        ELSE [stack_ptr EXCEPT ![pausing] = sv_sp]
        /\ transition' = IF tr \in {"Sleeping", "Blocked", "Terminating"}
                         THEN [transition EXCEPT ![pausing] = "None"]
                         ELSE transition
        /\ waiters' = IF tr = "Blocked" /\ blocking_event[pausing] \in Events
                      THEN [waiters EXCEPT ![blocking_event[pausing]] =
                              Append(@, pausing)]
                      ELSE waiters
        /\ list' = r.m.list /\ node' = r.m.node
        /\ IF r.out = NULL
           THEN /\ cpu' = "panic"
                /\ UNCHANGED <<task_running, mpu_regions, mpu_enabled>>
           ELSE /\ cpu' = "thread"
                /\ task_running' = r.out
                /\ mpu_regions' = apply_regions(r.out)
                /\ mpu_enabled' = TRUE
  /\ UNCHANGED <<kstate, pendsv, sv_sp, task_id_counter, event_counter,
                 priority, next_wut, blocking_event, stack_size, tick>>
  /\ UNCHANGED <<sync_vars, wake_at, fire_log>>
  /\ UNCHANGED mem_vars


(***************************************************************************)
(* Mutex (sync/mutex.rs).  One mutex; lock and unlock take several steps   *)
(* of the calling thread, between which it can be preempted.               *)
(***************************************************************************)
\* the scheduler state that event_await leaves alone
await_rest == <<kstate, cpu, sv_sp, task_running, list, node, task_id_counter,
                event_counter, priority, next_wut, stack_size, stack_ptr,
                tick, mpu_enabled, mpu_regions>>
\* the scheduler state that event_fire leaves alone
fire_rest == <<kstate, cpu, sv_sp, task_running, task_id_counter,
               event_counter, priority, transition, next_wut, blocking_event,
               stack_size, stack_ptr, tick, mpu_enabled, mpu_regions>>
sem_vars == <<sem_issued, sem_id, permits_held, acq_old>>

\* Mutex::register during startup
MutexRegister ==
  /\ cpu = "main" /\ mutex_id = 0
  /\ event_counter < MaxEvents
  /\ event_counter' = event_counter + 1
  /\ mutex_id' = event_counter + 1
  /\ UNCHANGED <<kstate, cpu, pendsv, sv_sp, task_running, list, node,
                 task_id_counter, priority, transition, next_wut,
                 blocking_event, stack_size, stack_ptr, tick, mpu_enabled,
                 mpu_regions>>
  /\ UNCHANGED <<pc, mutex_lock, guards, sem_vars, hist_vars>>
  /\ UNCHANGED mem_vars

\* Mutex::try_lock: raw_lock decides
MutexTryLock(t) ==
  /\ UserCall(t) /\ guards[t] = 0
  /\ mutex_lock' = TRUE
  /\ guards' = IF mutex_lock THEN guards ELSE [guards EXCEPT ![t] = 1]
  /\ UNCHANGED <<sched_vars, pc, mutex_id, sem_vars, hist_vars>>
  /\ UNCHANGED mem_vars

\* Mutex::lock, the first raw_lock
MutexLock(t) ==
  /\ UserCall(t) /\ guards[t] = 0
  /\ mutex_lock' = TRUE
  /\ IF mutex_lock
     THEN pc' = [pc EXCEPT ![t] = "lock_await"] /\ UNCHANGED guards
     ELSE guards' = [guards EXCEPT ![t] = 1] /\ UNCHANGED pc
  /\ UNCHANGED <<sched_vars, mutex_id, sem_vars, hist_vars>>
  /\ UNCHANGED mem_vars

\* Mutex::lock, syscall::event_await(id, timeout); the syscall returns Ok
MutexLockAwait(t) ==
  /\ UserStep(t) /\ pc[t] = "lock_await"
  /\ event_await(t, mutex_id)
  /\ pc' = [pc EXCEPT ![t] = "lock_retry"]
  /\ UNCHANGED <<await_rest, mutex_lock, mutex_id, guards, sem_vars, hist_vars>>
  /\ UNCHANGED mem_vars

\* Mutex::lock, after the wait: self.raw_lock().ok() and a guard is returned
MutexLockRetry(t) ==
  /\ UserStep(t) /\ pc[t] = "lock_retry"
  /\ mutex_lock' = TRUE
  /\ guards' = [guards EXCEPT ![t] = @ + 1]
  /\ pc' = [pc EXCEPT ![t] = "run"]
  /\ UNCHANGED <<sched_vars, mutex_id, sem_vars, hist_vars>>
  /\ UNCHANGED mem_vars

\* MutexGuard::drop, raw_unlock: the store
MutexUnlock(t) ==
  /\ UserCall(t) /\ guards[t] > 0
  /\ mutex_lock' = FALSE
  /\ guards' = [guards EXCEPT ![t] = @ - 1]
  /\ pc' = [pc EXCEPT ![t] = "unlock_fire"]
  /\ UNCHANGED <<sched_vars, mutex_id, sem_vars, hist_vars>>
  /\ UNCHANGED mem_vars

\* MutexGuard::drop, raw_unlock: syscall::event_fire(id)
MutexUnlockFire(t) ==
  /\ UserStep(t) /\ pc[t] = "unlock_fire"
  /\ DoEventFire(mutex_id)
  /\ pc' = [pc EXCEPT ![t] = "run"]
  /\ UNCHANGED <<fire_rest, mutex_lock, mutex_id, guards, sem_vars, wake_at>>
  /\ UNCHANGED mem_vars

(***************************************************************************)
(* Semaphore (sync/semaphore.rs).  One semaphore of SemPermits permits.    *)
(* permits_issued is a usize; a negative value here stands for the value   *)
(* it wraps to, which compares greater than any number of permits.         *)
(***************************************************************************)
mutex_vars == <<mutex_lock, mutex_id, guards>>

\* permits >= self.permits.load() in raw_acquire, on unsigned values
NoneLeft(issued) == issued < 0 \/ issued >= SemPermits

\* Semaphore::register during startup
SemRegister ==
  /\ cpu = "main" /\ sem_id = 0
  /\ event_counter < MaxEvents
  /\ event_counter' = event_counter + 1
  /\ sem_id' = event_counter + 1
  /\ UNCHANGED <<kstate, cpu, pendsv, sv_sp, task_running, list, node,
                 task_id_counter, priority, transition, next_wut,
                 blocking_event, stack_size, stack_ptr, tick, mpu_enabled,
                 mpu_regions>>
  /\ UNCHANGED <<pc, mutex_vars, sem_issued, permits_held, acq_old, hist_vars>>
  /\ UNCHANGED mem_vars

\* raw_acquire, permits_issued.fetch_add(1), for try_acquire, for acquire
\* and for acquire after the wait: from pc "from" to pc "to"
raw_acquire_add(t, from, to) ==
  /\ UserStep(t) /\ pc[t] = from
  /\ acq_old' = [acq_old EXCEPT ![t] = sem_issued]
  /\ sem_issued' = sem_issued + 1
  /\ pc' = [pc EXCEPT ![t] = to]
  /\ UNCHANGED <<sched_vars, mutex_vars, sem_id, permits_held, hist_vars>>
  /\ UNCHANGED mem_vars

\* raw_acquire, the comparison and the fetch_sub(1) on failure; the caller
\* goes on at pc "ok" with a permit or at pc "err" with one iff "anyway"
raw_acquire_check(t, from, ok, err, anyway) ==
  /\ UserStep(t) /\ pc[t] = from
  /\ IF NoneLeft(acq_old[t])
     THEN /\ sem_issued' = sem_issued - 1
          /\ pc' = [pc EXCEPT ![t] = err]
          /\ permits_held' = IF anyway
                             THEN [permits_held EXCEPT ![t] = @ + 1]
                             ELSE permits_held
     ELSE /\ UNCHANGED sem_issued
          /\ pc' = [pc EXCEPT ![t] = ok]
          /\ permits_held' = [permits_held EXCEPT ![t] = @ + 1]
  /\ UNCHANGED <<sched_vars, mutex_vars, sem_id, acq_old, hist_vars>>
  /\ UNCHANGED mem_vars

\* Semaphore::try_acquire
SemTryAcquire(t) ==
  permits_held[t] = 0 /\ raw_acquire_add(t, "run", "try_check")
SemTryAcquireCheck(t) ==
  raw_acquire_check(t, "try_check", "run", "run", FALSE)

\* Semaphore::acquire, the first raw_acquire
SemAcquire(t) ==
  permits_held[t] = 0 /\ raw_acquire_add(t, "run", "acq_check")
SemAcquireCheck(t) ==
  raw_acquire_check(t, "acq_check", "run", "acq_await", FALSE)

\* Semaphore::acquire, syscall::event_await(id, timeout); it returns Ok
SemAcquireAwait(t) ==
  /\ UserStep(t) /\ pc[t] = "acq_await"
  /\ event_await(t, sem_id)
  /\ pc' = [pc EXCEPT ![t] = "acq_retry"]
  /\ UNCHANGED <<await_rest, mutex_vars, sem_vars, hist_vars>>
  /\ UNCHANGED mem_vars

\* Semaphore::acquire, after the wait: self.raw_acquire().ok() and a permit
\* is returned
SemAcquireRetry(t) == raw_acquire_add(t, "acq_retry", "retry_check")
SemAcquireRetryCheck(t) ==
  raw_acquire_check(t, "retry_check", "run", "run", TRUE)

\* SemaphorePermit::drop, raw_release: the fetch_sub
SemRelease(t) ==
  /\ UserCall(t) /\ permits_held[t] > 0
  /\ sem_issued' = sem_issued - 1
  /\ permits_held' = [permits_held EXCEPT ![t] = @ - 1]
  /\ pc' = [pc EXCEPT ![t] = "release_fire"]
  /\ UNCHANGED <<sched_vars, mutex_vars, sem_id, acq_old, hist_vars>>
  /\ UNCHANGED mem_vars

\* SemaphorePermit::drop, raw_release: syscall::event_fire(id)
SemReleaseFire(t) ==
  /\ UserStep(t) /\ pc[t] = "release_fire"
  /\ DoEventFire(sem_id)
  /\ pc' = [pc EXCEPT ![t] = "run"]
  /\ UNCHANGED <<fire_rest, mutex_vars, sem_vars, wake_at>>
  /\ UNCHANGED mem_vars

(***************************************************************************)
(* SPSC ring buffer (mem/queue/spsc_const.rs).  Producer and consumer are  *)
(* threads that preempt each other between any two memory accesses.  All   *)
(* atomic accesses are Relaxed and the slots are plain memory, so nothing  *)
(* orders the access of a slot and the store of the index that follows it: *)
(* the two happen in either order.                                         *)
(***************************************************************************)
\* ConstQueue::capacity
capacity == QueueSlots - 1

\* ConstQueue::free_from_raw
free_from_raw(writer, reader) ==
  IF writer >= reader THEN capacity - (writer - reader)
  ELSE reader - writer - 1

\* ConstQueue::increment
increment(i) == (i + 1) % QueueSlots

other_vars == <<sched_vars, sync_vars, hist_vars, slice_log, late_vars,
                ext_vars>>

\* try_push_back: self.writer.load
PushLoadWriter ==
  /\ prod.pc = "idle" /\ Len(pushed) < MaxPush
  /\ prod' = [prod EXCEPT !.pc = "load_reader", !.writer = q_writer]
  /\ UNCHANGED <<q_data, q_writer, q_reader, cons, pushed, popped, other_vars>>

\* try_push_back: self.reader.load, the Full check and the increment
PushLoadReader ==
  /\ prod.pc = "load_reader"
  /\ IF free_from_raw(prod.writer, q_reader) = 0
     THEN /\ prod' = [prod EXCEPT !.pc = "idle", !.reader = q_reader]
          /\ UNCHANGED pushed
     ELSE /\ prod' = [pc |-> "store", writer |-> increment(prod.writer),
                      reader |-> q_reader, todo |-> {"data", "index"}]
          /\ pushed' = Append(pushed, Len(pushed) + 1)
  /\ UNCHANGED <<q_data, q_writer, q_reader, cons, popped, other_vars>>

\* what is left to do of a pair of accesses, and the pc after an access
Done(p, access) ==
  [p EXCEPT !.todo = @ \ {access},
            !.pc = IF p.todo = {access} THEN "idle" ELSE p.pc]

\* try_push_back: data[writer].write(item)
PushWriteData ==
  /\ prod.pc = "store" /\ "data" \in prod.todo
  /\ q_data' = [q_data EXCEPT ![prod.writer] = pushed[Len(pushed)]]
  /\ prod' = Done(prod, "data")
  /\ UNCHANGED <<q_writer, q_reader, cons, pushed, popped, other_vars>>

\* try_push_back: self.writer.store
PushStoreWriter ==
  /\ prod.pc = "store" /\ "index" \in prod.todo
  /\ q_writer' = prod.writer
  /\ prod' = Done(prod, "index")
  /\ UNCHANGED <<q_data, q_reader, cons, pushed, popped, other_vars>>

\* try_pop_front: free(), self.writer.load
PopLoadWriter ==
  /\ cons.pc = "idle"
  /\ cons' = [cons EXCEPT !.pc = "load_reader", !.writer = q_writer]
  /\ UNCHANGED <<q_data, q_writer, q_reader, prod, pushed, popped, other_vars>>

\* try_pop_front: free(), self.reader.load, and the Empty check
PopLoadReader ==
  /\ cons.pc = "load_reader"
  /\ cons' = [cons EXCEPT
                !.pc = IF free_from_raw(cons.writer, q_reader) = capacity
                       THEN "idle" ELSE "increment",
                !.reader = q_reader]
  /\ UNCHANGED <<q_data, q_writer, q_reader, prod, pushed, popped, other_vars>>

\* try_pop_front: increment(self.reader.load)
PopIncrement ==
  /\ cons.pc = "increment"
  /\ cons' = [cons EXCEPT !.pc = "store", !.reader = increment(q_reader),
                          !.todo = {"data", "index"}]
  /\ UNCHANGED <<q_data, q_writer, q_reader, prod, pushed, popped, other_vars>>

\* try_pop_front: data[reader].assume_init(); a slot never written holds
\* any value
PopReadData ==
  /\ cons.pc = "store" /\ "data" \in cons.todo
  /\ \E item \in IF q_data[cons.reader] = Uninit THEN 0..MaxPush
                 ELSE {q_data[cons.reader]} :
       popped' = Append(popped, item)
  /\ cons' = Done(cons, "data")
  /\ UNCHANGED <<q_data, q_writer, q_reader, prod, pushed, other_vars>>

\* try_pop_front: self.reader.store
PopStoreReader ==
  /\ cons.pc = "store" /\ "index" \in cons.todo
  /\ q_reader' = cons.reader
  /\ cons' = Done(cons, "index")
  /\ UNCHANGED <<q_data, q_writer, prod, pushed, popped, other_vars>>

vars == <<sched_vars, sync_vars, hist_vars, mem_vars>>

(***************************************************************************)
(* The mutex specification: three threads of priorities 3, 1 and 2 share   *)
(* the mutex registered during startup, and sleep.                         *)
(***************************************************************************)
MutexThreads == 2..4
MutexPrio(t) == CASE t = 2 -> 3 [] t = 3 -> 1 [] OTHER -> 2

NextMutex ==
  \/ \E t \in MutexThreads : Spawn(t, MutexPrio(t), 256, 0)
  \/ MutexRegister
  \/ mutex_id # 0 /\ Start
  \/ Tick
  \/ \E t \in MutexThreads : SysSleep(t, 1)
  \/ \E t \in MutexThreads : MutexTryLock(t)
  \/ \E t \in MutexThreads : MutexLock(t)
  \/ \E t \in MutexThreads : MutexLockAwait(t)
  \/ \E t \in MutexThreads : MutexLockRetry(t)
  \/ \E t \in MutexThreads : MutexUnlock(t)
  \/ \E t \in MutexThreads : MutexUnlockFire(t)
  \/ PendSVEntry(Shallow(task_running))
  \/ SwitchContext

SpecMutex == Init /\ [][NextMutex]_vars

(***************************************************************************)
(* The scheduler specification: threads are spawned during startup or by a *)
(* running thread, sleep, yield, exit, fault and overflow their stacks.    *)
(***************************************************************************)
SchedThreads == 2..(NSched + 1)
\* stack size and closure size of the threads spawned
SpawnShapes == {<<256, 0>>, <<128, 24>>}

NextSched ==
  \/ \E t \in SchedThreads, prio \in 0..MaxPrio, sh \in SpawnShapes :
       Spawn(t, prio, sh[1], sh[2])
  \/ Start
  \/ Tick
  \/ \E t \in SchedThreads, ms \in 1..MaxSleep : SysSleep(t, ms)
  \/ \E t \in SchedThreads : SysYield(t)
  \/ \E t \in SchedThreads : SysExit(t)
  \/ \E t \in SchedThreads : MemFault(t)
  \/ \E t \in Threads : t = task_running /\
       \E psp \in PspChoices(t) : PendSVEntry(psp)
  \/ SwitchContext

Spec == Init /\ [][NextSched]_vars


(***************************************************************************)
(* The semaphore specification: two threads of priorities 2 and 1 share    *)
(* the semaphore registered during startup, and sleep.                     *)
(***************************************************************************)
SemThreads == 2..3
SemPrio(t) == IF t = 2 THEN 2 ELSE 1

NextSem ==
  \/ \E t \in SemThreads : Spawn(t, SemPrio(t), 256, 0)
  \/ SemRegister
  \/ sem_id # 0 /\ Start
  \/ Tick
  \/ \E t \in SemThreads : SysSleep(t, 1)
  \/ \E t \in SemThreads : SemTryAcquire(t)
  \/ \E t \in SemThreads : SemTryAcquireCheck(t)
  \/ \E t \in SemThreads : SemAcquire(t)
  \/ \E t \in SemThreads : SemAcquireCheck(t)
  \/ \E t \in SemThreads : SemAcquireAwait(t)
  \/ \E t \in SemThreads : SemAcquireRetry(t)
  \/ \E t \in SemThreads : SemAcquireRetryCheck(t)
  \/ \E t \in SemThreads : SemRelease(t)
  \/ \E t \in SemThreads : SemReleaseFire(t)
  \/ PendSVEntry(Shallow(task_running))
  \/ SwitchContext

SpecSem == Init /\ [][NextSem]_vars

(***************************************************************************)
(* The event specification: four threads of priorities 0, 0, 1 and 2 wait  *)
(* for the events registered during startup; interrupt service routines    *)
(* fire them.                                                              *)
(***************************************************************************)
EventThreads == 2..5
EventPrio(t) == CASE t = 2 -> 0 [] t = 3 -> 0 [] t = 4 -> 1 [] OTHER -> 2

NextEvent ==
  \/ \E t \in EventThreads : cpu = "main" /\ Spawn(t, EventPrio(t), 256, 0)
  \/ EventRegister
  \/ event_counter = MaxEvents /\ Start
  \/ \E t \in EventThreads, id \in Events : SysEventAwait(t, id)
  \/ \E id \in Events : IsrEventFire(id)
  \/ PendSVEntry(Shallow(task_running))
  \/ SwitchContext

SpecEvent == Init /\ [][NextEvent]_vars

(***************************************************************************)
(* The ring buffer specification: one producer pushes 1, 2, ..., one       *)
(* consumer pops.                                                          *)
(***************************************************************************)
NextSpsc ==
  \/ PushLoadWriter
  \/ PushLoadReader
  \/ PushWriteData
  \/ PushStoreWriter
  \/ PopLoadWriter
  \/ PopLoadReader
  \/ PopIncrement
  \/ PopReadData
  \/ PopStoreReader

SpecSpsc == Init /\ [][NextSpsc]_vars

(***************************************************************************)
(* Properties of the scheduler.                                            *)
(***************************************************************************)
ReadyLists == {Ready(p) : p \in Priorities}
\* the threads linked into the ready queues
ReadyThreads(M) ==
  {t \in Threads : \E l \in ReadyLists :
     \E i \in 1..Len(Nodes(M, l)) : Nodes(M, l)[i] = t}

\* C1: at every switch_context after start, the thread selected has a
\* priority value less than or equal to that of every thread that remains in
\* any ready queue.
C1_SelectsHighestPriority ==
  [][(cpu = "pendsv" /\ cpu' = "thread") =>
       \A t \in ReadyThreads([list |-> list', node |-> node']) :
         priority'[task_running'] <= priority'[t]]_vars

\* after a switch that paused a user thread (its stack pointer was saved),
\* another user thread of the same priority runs while the first and the
\* idle thread stay ready
C1_Witness ==
  /\ cpu = "thread" /\ task_running \in UserThreads
  /\ \E t \in UserThreads :
       /\ t \in ReadyThreads(Mem) /\ priority[t] = priority[task_running]
       /\ stack_ptr[t] = StackBottom(t) + MinRegionSize + 4
  /\ IdleId \in ReadyThreads(Mem)


\* C4: a thread that calls sleep(n) at tick t is not selected to run again
\* before the tick counter has reached t + n.
C4_NoEarlyWake ==
  [][(cpu = "pendsv" /\ cpu' = "thread") =>
       tick' >= wake_at'[task_running']]_vars

\* a user thread runs again after a sleep of MaxSleep ticks
C4_Witness ==
  /\ cpu = "thread" /\ task_running \in UserThreads
  /\ transition[task_running] = "None"
  /\ wake_at[task_running] >= MaxSleep
  /\ tick >= wake_at[task_running]

\* the lists a thread is linked into
LocOf(M, t) ==
  {l \in ListIds : \E i \in 1..Len(Nodes(M, l)) : Nodes(M, l)[i] = t}

\* the threads linked into the terminated list
InTerminated(M) ==
  {Nodes(M, Terminated)[i] : i \in 1..Len(Nodes(M, Terminated))}

\* the running thread faults: it is marked Terminating by the memory
\* protection exception, or PendSV finds its stack exhausted
FaultStep ==
  /\ cpu = "thread"
  /\ \/ /\ transition[task_running] # "Terminating"
        /\ transition'[task_running] = "Terminating"
     \/ cpu' = "pendsv" /\ sv_sp' = 0

Suspended ==
  {t \in Threads : \E l \in LocOf(Mem, t) : l # Terminated}

\* C7: every suspended thread, from spawn onwards, satisfies
\* bottom + guard_size <= sp <= bottom + size.
C7_SuspendedStackInBounds ==
  \A t \in Suspended :
    /\ StackBottom(t) + MinRegionSize <= stack_ptr[t]
    /\ stack_ptr[t] <= StackBottom(t) + stack_size[t]

\* C8: while a thread executes unprivileged the MPU is enabled and the
\* per-thread regions are those of the running thread; after start the MPU
\* is disabled only between the start and the end of a context switch.
C8_MpuGuardsRunningThread ==
  kstate = "Running" =>
    /\ cpu = "thread" =>
         mpu_enabled /\ mpu_regions = MemoryRegions(task_running)
    /\ ~mpu_enabled => cpu = "pendsv"

\* a second user thread runs, after a switch, under its own regions
C8_Witness ==
  /\ cpu = "thread" /\ mpu_enabled
  /\ task_running \in UserThreads
  /\ mpu_regions = MemoryRegions(task_running)
  /\ \E t \in UserThreads :
       t # task_running /\ stack_ptr[t] = StackBottom(t) + MinRegionSize + 4


(***************************************************************************)
(* Properties of the mutex.                                                *)
(***************************************************************************)
\* C2: at most one thread holds a MutexGuard of the mutex at any instant,
\* under every interleaving of lock, try_lock and drop.
C2_AtMostOneGuardHolder ==
  Cardinality({t \in Threads : guards[t] > 0}) <= 1

\* C10: while T1 (priority 3) holds the mutex and is ready to run, and T2
\* (priority 1) is blocked in lock(), T3 (priority 2) is not selected to run:
\* T2 acquires the mutex first.
C10_NoPriorityInversion ==
  [][LET T1 == 2
         T2 == 3
         T3 == 4
         M1 == [list |-> list', node |-> node']
     IN (/\ cpu = "pendsv" /\ cpu' = "thread"
         /\ guards'[T1] > 0
         /\ pc'[T2] = "lock_retry"
         /\ Pending(mutex_id) \in LocOf(M1, T2)
         /\ Ready(priority[T1]) \in LocOf(M1, T1))
          => task_running' # T3]_vars


(***************************************************************************)
(* Properties of the semaphore.                                            *)
(***************************************************************************)
RECURSIVE SumHeld(_)
SumHeld(S) ==
  IF S = {} THEN 0
  ELSE LET t == CHOOSE x \in S : TRUE IN permits_held[t] + SumHeld(S \ {t})

\* C3: for a semaphore constructed with n permits, the number of
\* outstanding SemaphorePermit handles never exceeds n.
C3_PermitsWithinLimit == SumHeld(Threads) <= SemPermits


(***************************************************************************)
(* Properties of events.                                                   *)
(***************************************************************************)
\* of the waiters w, in arrival order, the first of the highest priority
\* (NULL: there is none)
FirstOfHighest(w) ==
  IF w = <<>> THEN NULL
  ELSE LET best == {i \in 1..Len(w) :
                      \A j \in 1..Len(w) : priority[w[i]] <= priority[w[j]]}
       IN w[CHOOSE i \in best : \A j \in best : i <= j]

\* C5: when k threads wait for the same event, k successive fires wake them
\* in priority order, ties in arrival order: every fire wakes the first
\* arrived of the waiters of the highest priority.
C5_FiresWakeInPriorityOrder ==
  fire_log.woken = FirstOfHighest(fire_log.before)


(***************************************************************************)
(* Properties of the ring buffer.                                          *)
(***************************************************************************)
\* C9: with producer and consumer running concurrently, every value whose
\* push returned Ok is returned by exactly one later pop, and the values are
\* popped in the order they were pushed: the values popped are, in order,
\* the first of the values pushed.
C9_PoppedInPushOrder ==
  /\ Len(popped) <= Len(pushed)
  /\ \A i \in 1..Len(popped) : popped[i] = pushed[i]

Irqs == 1..(IrqSlots + 1)
\* the interrupts that fire: the first and the last two connected
FiredIrqs == {1, IrqSlots, IrqSlots + 1}

\* InterruptHandler::new: a builder with no stack and no interrupts
IrqNew ==
  /\ ib' = [stack |-> "None", irqn |-> [i \in 1..IrqSlots |-> NoIrq],
            asked |-> {}]
  /\ ib # ib'
  /\ UNCHANGED <<interrupt_handlers, irq_log>>
  /\ UNCHANGED <<sched_vars, sync_vars, hist_vars, queue_vars, slice_log,
                 late_vars>>
  /\ UNCHANGED <<proc_vars, await_log, alloc_vars>>

\* InterruptBuilder::stack(InterruptStack::Kernel)
IrqStack ==
  /\ ib.stack = "None"
  /\ ib' = [ib EXCEPT !.stack = "Kernel"]
  /\ UNCHANGED <<interrupt_handlers, irq_log>>
  /\ UNCHANGED <<sched_vars, sync_vars, hist_vars, queue_vars, slice_log,
                 late_vars>>
  /\ UNCHANGED <<proc_vars, await_log, alloc_vars>>

\* InterruptBuilder::connect_interrupt(irqn): the first free slot takes the
\* number; with no free slot the call changes nothing
connect_interrupt(b, irqn) ==
  LET free == {i \in 1..IrqSlots : b.irqn[i] = NoIrq}
  IN IF free = {} THEN b.irqn
     ELSE [b.irqn EXCEPT ![CHOOSE i \in free : \A j \in free : i <= j] = irqn]

IrqConnect(irqn) ==
  /\ irqn = Cardinality(ib.asked) + 1
  /\ ib' = [ib EXCEPT !.irqn = connect_interrupt(ib, irqn),
                      !.asked = @ \cup {irqn}]
  /\ UNCHANGED <<interrupt_handlers, irq_log>>
  /\ UNCHANGED <<sched_vars, sync_vars, hist_vars, queue_vars, slice_log,
                 late_vars>>
  /\ UNCHANGED <<proc_vars, await_log, alloc_vars>>

\* InterruptBuilder::handler, build and sched::interrupt_handler_add: only a
\* builder with the kernel stack registers a handler
IrqHandler ==
  /\ Len(interrupt_handlers) < MaxHandlers
  /\ interrupt_handlers' =
       IF ib.stack = "Kernel"
       THEN Append(interrupt_handlers, [irqn |-> ib.irqn, asked |-> ib.asked])
       ELSE interrupt_handlers
  /\ UNCHANGED <<ib, irq_log>>
  /\ UNCHANGED <<sched_vars, sync_vars, hist_vars, queue_vars, slice_log,
                 late_vars>>
  /\ UNCHANGED <<proc_vars, await_log, alloc_vars>>

\* InterruptHandler::contains_interrupt
contains_interrupt(h, irqn) == \E i \in 1..IrqSlots : h.irqn[i] = irqn

\* kernel_interrupt_handler(irqn): the calls made, as <<handler, irq id>>, in
\* the order of the handler list; irq_log also keeps the length of the list
RECURSIVE HandlerCalls(_, _)
HandlerCalls(k, irqn) ==
  IF k > Len(interrupt_handlers) THEN <<>>
  ELSE (IF contains_interrupt(interrupt_handlers[k], irqn)
        THEN <<(<<k, irqn>>)>> ELSE <<>>) \o HandlerCalls(k + 1, irqn)

kernel_interrupt_handler(irqn) ==
  /\ irq_log' = [irqn |-> irqn, calls |-> HandlerCalls(1, irqn),
                 handlers |-> Len(interrupt_handlers)]
  /\ UNCHANGED <<interrupt_handlers, ib>>
  /\ UNCHANGED <<sched_vars, sync_vars, hist_vars, queue_vars, slice_log,
                 late_vars>>
  /\ UNCHANGED <<proc_vars, await_log, alloc_vars>>

NextIrq ==
  \/ IrqNew
  \/ IrqStack
  \/ \E x \in Irqs : IrqConnect(x)
  \/ IrqHandler
  \/ \E x \in FiredIrqs : kernel_interrupt_handler(x)

SpecIrq == Init /\ [][NextIrq]_vars

\* how often handler k was called with irq id x by the last interrupt
CallCount(k, x) ==
  Cardinality({i \in 1..Len(irq_log.calls) : irq_log.calls[i] = <<k, x>>})

\* C12: when interrupt x fires, every registered handler whose builder was
\* connected to x is invoked exactly once with x as the IRQ id, and no handler
\* that was not connected to x is invoked.
C12_ConnectedHandlersInvokedOnce ==
  irq_log.irqn # NoIrq =>
    /\ \A i \in 1..Len(irq_log.calls) :
         /\ irq_log.calls[i][2] = irq_log.irqn
         /\ irq_log.irqn \in interrupt_handlers[irq_log.calls[i][1]].asked
    /\ \A k \in 1..irq_log.handlers :
         irq_log.irqn \in interrupt_handlers[k].asked
           => CallCount(k, irq_log.irqn) = 1

(***************************************************************************)
(* Processes (exec/process.rs, kernel.rs).  Process::init is an ordinary   *)
(* function that reads and writes KERNEL; it runs privileged: in main      *)
(* during startup, or in a kernel interrupt handler once the kernel runs.  *)
(***************************************************************************)
Procs == 1..MaxProcs

\* ProcessInternal::start_addr: the linker gives every process its own data
\* section
start_addr(p) == 4096 * p

\* a build in which no process is ever found in the list
never_registered(p) == FALSE

\* Kernel::is_process_registered
is_process_registered(p) ==
  \E i \in 1..Len(processes) : start_addr(processes[i]) = start_addr(p)

\* Process::init(f) with a closure f that returns; the kernel state is not
\* consulted
ProcessInit(p) ==
  /\ cpu = "main" \/ kstate = "Running"
  /\ proc_log.calls < MaxInitCalls
  /\ IF is_process_registered(p)
     THEN /\ proc_log' = [calls |-> proc_log.calls + 1, process |-> p,
                          state |-> kstate, before |-> processes,
                          result |-> "AlreadyInit", ran |-> FALSE]
          /\ UNCHANGED <<processes, init_process>>
     ELSE /\ processes' = Append(processes, p)
          /\ init_process' = NULL
          /\ proc_log' = [calls |-> proc_log.calls + 1, process |-> p,
                          state |-> kstate, before |-> processes,
                          result |-> "Ok", ran |-> TRUE]
  /\ UNCHANGED <<sched_vars, sync_vars, hist_vars, queue_vars, slice_log,
                 late_vars>>
  /\ UNCHANGED <<irq_vars, await_log, alloc_vars>>

NextProc ==
  \/ \E p \in Procs : ProcessInit(p)
  \/ \E t \in SchedThreads, prio \in {0, MaxPrio}, sh \in SpawnShapes :
       Spawn(t, prio, sh[1], sh[2])
  \/ Start

SpecProc == Init /\ [][NextProc]_vars

\* the last call of Process::init was made on a process already in the list
InitOfRegistered ==
  \E i \in 1..Len(proc_log.before) : proc_log.before[i] = proc_log.process

\* C13: init on a process that has already been initialised fails with
\* AlreadyInit, does not run the init closure, and leaves the kernel's process
\* list unchanged.
C13_SecondInitRejected ==
  InitOfRegistered =>
    /\ proc_log.result = "AlreadyInit"
    /\ ~proc_log.ran
    /\ processes = proc_log.before

C13_Witness ==
  /\ InitOfRegistered /\ proc_log.result = "AlreadyInit"
  /\ Len(processes) > 1 /\ processes[1] = proc_log.process

\* C14: init called after the kernel went from Startup to Running fails with
\* KernelAlreadyRunning, registers no process and does not run the closure.
C14_InitWhileRunningRejected ==
  proc_log.state = "Running" =>
    /\ proc_log.result = "KernelAlreadyRunning"
    /\ ~proc_log.ran
    /\ processes = proc_log.before

(***************************************************************************)
(* Waiting with a timeout (syscall.rs, sched.rs).  Two threads of          *)
(* priorities 1 and 2 call event_await with a timeout of 0 or 1 ticks on   *)
(* the ids 1..MaxEvents, of which those registered during startup exist.   *)
(***************************************************************************)
AwaitThreads == 2..3
AwaitPrio(t) == IF t = 2 THEN 1 ELSE 2
AwaitTimeouts == {0, 1}

\* syscall event_await(id, timeout): sched::event_await ignores the timeout,
\* and the EventAwait service replaces its result by Ok(())
SysEventAwaitFor(t, id, timeout) ==
  /\ UserCall(t)
  /\ event_await(t, id)
  /\ await_log' = [await_log EXCEPT ![t] =
                     [timeout |-> timeout, until |-> tick + timeout,
                      known |-> id \in 1..event_counter, ret |-> "Ok"]]
  /\ UNCHANGED <<kstate, cpu, sv_sp, task_running, list, node,
                 task_id_counter, event_counter, priority, next_wut,
                 stack_size, stack_ptr, tick, mpu_enabled, mpu_regions>>
  /\ UNCHANGED <<sync_vars, hist_vars>>
  /\ UNCHANGED noawait_vars

NextAwait ==
  \/ \E t \in AwaitThreads : cpu = "main" /\ Spawn(t, AwaitPrio(t), 256, 0)
  \/ EventRegister
  \/ Start
  \/ Tick
  \/ \E t \in AwaitThreads, id \in Events, timeout \in AwaitTimeouts :
       SysEventAwaitFor(t, id, timeout)
  \/ \E id \in Events : IsrEventFire(id)
  \/ PendSVEntry(Shallow(task_running))
  \/ SwitchContext

SpecAwait == Init /\ [][NextAwait]_vars

\* the threads linked into the waiter list of some event
InPending ==
  {t \in Threads : \E l \in LocOf(Mem, t) : \E e \in Events : l = Pending(e)}

\* C15: a thread that waits with a finite timeout t > 0 does not stay blocked
\* when the event is not fired within t ticks: once its deadline has passed,
\* the tick has made it ready again, so it is in no waiter list.
C15_TimeoutEndsWait ==
  \A t \in InPending :
    await_log[t].timeout > 0 => tick <= await_log[t].until

\* C16: event_await with timeout 0 never suspends the caller: the thread is
\* not marked Blocked and enters no waiter list.
C16_ZeroTimeoutNeverSuspends ==
  \A t \in Threads :
    await_log[t].ret # "None" /\ await_log[t].timeout = 0
      => t \notin InPending /\ transition[t] # "Blocked"

\* C20: an event_await on an id that matches no registered event is reported
\* to the caller as the error InvalidId, not as success.
C20_UnknownIdReported ==
  \A t \in Threads :
    await_log[t].ret # "None" /\ ~await_log[t].known
      => await_log[t].ret = "InvalidId"

(***************************************************************************)
(* The bump allocator (alloc/bump.rs).  The counters stay far below the     *)
(* width of usize: the block has BumpCapacity bytes.                       *)
(***************************************************************************)
\* <<size, align>> of the layouts allocated and deallocated
BumpLayouts == {<<1, 1>>, <<4, 4>>, <<6, 2>>}

\* pointer::align_offset for a byte pointer
align_offset(ptr, align) == (align - (ptr % align)) % align

\* Bump::capacity and Bump::usage
bump_capacity == BumpCapacity
bump_usage == bump.current - BumpStart

\* what the model leaves alone in a step of the bump allocator
bump_rest == <<sched_vars, sync_vars, hist_vars, queue_vars, slice_log, late_vars,
               irq_vars, proc_vars, await_log, pool, heap>>

\* Bump::alloc: self.current.load, at the call and after a failed
\* compare_exchange
BumpAllocLoad(c, layout) ==
  /\ \/ bump_ctx[c].pc = "idle" /\ bump_log.seq < MaxAllocOps
     \/ bump_ctx[c].pc = "retry" /\ layout = bump_ctx[c].layout
  /\ bump_ctx' = [bump_ctx EXCEPT ![c] =
        [pc |-> "check", old |-> bump.current, layout |-> layout]]
  /\ UNCHANGED <<bump, bump_log, bump_rest>>

\* Bump::alloc: the size check, with the padding of the head loaded before
\* and the usage() of now, which loads current again; Err(OutOfMemory)
\* returns, otherwise the compare_exchange follows
BumpAllocCheck(c) ==
  /\ bump_ctx[c].pc = "check"
  /\ LET layout == bump_ctx[c].layout
         padding == align_offset(bump_ctx[c].old, layout[2])
     IN IF bump_capacity - bump_usage < layout[1] + padding
        THEN /\ bump_ctx' = [bump_ctx EXCEPT ![c] =
                   [pc |-> "idle", old |-> 0, layout |-> <<0, 0>>]]
             /\ bump_log' = [seq |-> bump_log.seq + 1, op |-> "OutOfMemory",
                             size |-> layout[1]]
        ELSE /\ bump_ctx' = [bump_ctx EXCEPT ![c].pc = "cas"]
             /\ UNCHANGED bump_log
  /\ UNCHANGED <<bump, bump_rest>>

\* Bump::alloc, the compare_exchange: on success the padding is added to the
\* wastage and the call returns, on failure the loop starts again
BumpAllocCas(c) ==
  /\ bump_ctx[c].pc = "cas"
  /\ LET old == bump_ctx[c].old
         layout == bump_ctx[c].layout
         padding == align_offset(old, layout[2])
     IN IF bump.current = old
        THEN /\ bump' = [current |-> old + layout[1] + padding,
                         wastage |-> bump.wastage + padding]
             /\ bump_ctx' = [bump_ctx EXCEPT ![c] =
                   [pc |-> "idle", old |-> 0, layout |-> <<0, 0>>]]
             /\ bump_log' = [seq |-> bump_log.seq + 1, op |-> "alloc",
                             size |-> layout[1]]
        ELSE /\ bump_ctx' = [bump_ctx EXCEPT ![c].pc = "retry", ![c].old = 0]
             /\ UNCHANGED <<bump, bump_log>>
  /\ UNCHANGED bump_rest

\* a dealloc that gives the bytes back
dealloc_rewind(layout) ==
  [current |-> bump.current - layout[1], wastage |-> bump.wastage]

\* Bump::dealloc: the allocator after the call
dealloc_bump(layout) ==
  [current |-> bump.current, wastage |-> bump.wastage + layout[1]]

BumpDealloc(c, layout) ==
  /\ bump_ctx[c].pc = "idle" /\ bump_log.seq < MaxAllocOps
  /\ bump' = dealloc_bump(layout)
  /\ bump_log' = [seq |-> bump_log.seq + 1, op |-> "dealloc",
                  size |-> layout[1]]
  /\ UNCHANGED <<bump_ctx, bump_rest>>

NextBump ==
  \/ \E c \in Contexts, layout \in BumpLayouts : BumpAllocLoad(c, layout)
  \/ \E c \in Contexts : BumpAllocCheck(c)
  \/ \E c \in Contexts : BumpAllocCas(c)
  \/ \E c \in Contexts, layout \in BumpLayouts : BumpDealloc(c, layout)

SpecBump == Init /\ [][NextBump]_vars

\* C17: over any sequence of alloc and dealloc calls the usage of the bump
\* allocator never decreases; a dealloc leaves usage and the head pointer
\* unchanged and only adds the size of the deallocated layout to the wastage.
C17_BumpUsageNeverDecreases ==
  [][/\ bump'.current >= bump.current
     /\ bump_log'.seq # bump_log.seq /\ bump_log'.op = "dealloc"
          => /\ bump'.current = bump.current
             /\ bump'.wastage = bump.wastage + bump_log'.size]_vars

\* a dealloc has returned after memory was allocated with padding
C17_Witness ==
  /\ bump_log.op = "dealloc"
  /\ bump_usage > 0
  /\ bump.wastage > bump_log.size

(***************************************************************************)
(* The fixed pool (alloc/pool.rs): Pool<2> with partitions of 8- and       *)
(* 16-byte blocks.  The free queue of a partition is a sequence of block   *)
(* addresses, front first.  The memory of the second partition lies        *)
(* directly behind the first or one block further on.                      *)
(***************************************************************************)
\* Partition::empty(block_size) of partition i
block_size(i) == 8 * i
\* distance between the partitions' memory
PoolGaps == {0, 8}
\* layout sizes allocated
PoolSizes == {4, 8, 12}

pool_rest == <<sched_vars, sync_vars, hist_vars, queue_vars, slice_log, late_vars,
               irq_vars, proc_vars, await_log, bump_vars, heap>>

\* push_free_block for the blocks 0..capacity-1 in turn, each to the front
RECURSIVE FreeBlocks(_, _, _)
FreeBlocks(ptr, bs, n) ==
  IF n = 0 THEN <<>> ELSE <<ptr + (n - 1) * bs>> \o FreeBlocks(ptr, bs, n - 1)

\* Partition::init_from_slice(memory) with memory at ptr, PoolBlocks blocks
\* long
PoolInitFromSlice(i, ptr) ==
  /\ pool.part[i].capacity = 0
  /\ IF i = 1 THEN ptr = PoolBase
     ELSE /\ pool.part[i - 1].capacity > 0
          /\ \E g \in PoolGaps : ptr = pool.part[i - 1].end + g
  /\ LET len == PoolBlocks * block_size(i)
         cap == len \div block_size(i)
     IN pool' = [pool EXCEPT !.part[i] =
                   [free |-> FreeBlocks(ptr, block_size(i), cap),
                    len |-> cap, capacity |-> cap,
                    start |-> ptr, end |-> ptr + len]]
  /\ UNCHANGED pool_rest

\* Partition::try_allocate would return Some
CanAllocate(i, size) == size <= block_size(i) /\ pool.part[i].free # <<>>

\* Pool::alloc(layout): the first partition that allocates
PoolAlloc(size) ==
  LET fit == {i \in PoolParts : CanAllocate(i, size)}
  IN /\ fit # {}
     /\ LET i == CHOOSE k \in fit : \A j \in fit : k <= j
            ptr == Head(pool.part[i].free)
        IN pool' = [pool EXCEPT !.part[i].free = Tail(@),
                                !.part[i].len = @ - 1,
                                !.held = @ \cup {<<ptr, size, i>>}]
     /\ UNCHANGED pool_rest

\* Partition::try_deallocate returns Ok
InRange(i, ptr) == ~(ptr < pool.part[i].start \/ ptr > pool.part[i].end)

\* Pool::dealloc(ptr, layout) of a block allocated before: the first partition
\* whose range check accepts the pointer takes the block
PoolDealloc(h) ==
  /\ h \in pool.held
  /\ LET takes == {i \in PoolParts : InRange(i, h[1])}
     IN IF takes = {}
        THEN pool' = [pool EXCEPT !.held = @ \ {h}]
        ELSE LET i == CHOOSE k \in takes : \A j \in takes : k <= j
             IN pool' = [pool EXCEPT !.part[i].free = <<h[1]>> \o @,
                                     !.part[i].len = @ + 1,
                                     !.held = @ \ {h}]
  /\ UNCHANGED pool_rest

NextPool ==
  \/ \E i \in PoolParts, ptr \in PoolBase..(PoolBase + 64) :
       PoolInitFromSlice(i, ptr)
  \/ \E size \in PoolSizes : PoolAlloc(size)
  \/ \E ptr \in PoolBase..(PoolBase + 64), size \in PoolSizes,
          i \in PoolParts : PoolDealloc(<<ptr, size, i>>)

SpecPool == Init /\ [][NextPool]_vars

\* C18: dealloc returns a block to the free list of the partition it was
\* allocated from: once every allocated block has been deallocated, every
\* partition's free-block count is what it was before the allocations.
C18_PoolCountsRestored ==
  pool.held = {} =>
    \A i \in PoolParts : pool.part[i].len = pool.part[i].capacity

(***************************************************************************)
(* The free-list heap (alloc/heap.rs).  The free list is the intrusive     *)
(* LinkedList of mem/linked_list.rs, its nodes written into the free       *)
(* blocks; a heap H is [list, node, size] and the list is called "free".   *)
(***************************************************************************)
\* layout sizes allocated
HeapSizes == {8, 12, 24}

heap_rest == <<sched_vars, sync_vars, hist_vars, queue_vars, slice_log, late_vars,
               irq_vars, proc_vars, await_log, bump_vars, pool>>

\* the list memory of H with the links of M
WithLinks(H, M) == [H EXCEPT !.list = M.list, !.node = M.node]

\* Heap::insert_free, the loop from iteration i with the cursor at cur; len0
\* is the length of the list when the loop began
RECURSIVE InsertFreeFrom(_, _, _, _, _)
InsertFreeFrom(H, ptr, cur, i, len0) ==
  IF i > len0 THEN [H EXCEPT !.panicked = TRUE]
  ELSE IF cur > ptr
  THEN LET join == cur = ptr + H.size[ptr]
           \* join right: the sizes are added and the cursor takes its node
           H1 == IF join
                 THEN WithLinks([H EXCEPT !.size[ptr] = @ + H.size[cur]],
                                unlink_raw(H, "free", cur))
                 ELSE H
           cur1 == IF join THEN H.node[cur].next ELSE cur
       IN IF cur1 = NULL
          THEN WithLinks(H1, push_back(H1, "free", ptr))
          ELSE WithLinks(H1, insert(H1, "free", cur1, ptr))
  ELSE IF cur = NULL
  THEN WithLinks(H, push_back(H, "free", ptr))
  ELSE InsertFreeFrom(H, ptr, H.node[cur].next, i + 1, len0)

\* Heap::insert_free(block): a fresh node is written into the block first
insert_free(H, ptr, size) ==
  LET H0 == [H EXCEPT !.node[ptr] = EmptyNode, !.size[ptr] = size]
  IN InsertFreeFrom(H0, ptr, H0.list["free"].head, 0, H0.list["free"].len)

\* Heap::alloc, the search from iteration i with the cursor at cur: how it
\* ends ("found", "OutOfMemory" or "panic") and the node found
RECURSIVE FindFree(_, _, _, _)
FindFree(H, size_requested, cur, i) ==
  IF cur = NULL THEN [res |-> "OutOfMemory", node |-> NULL]
  ELSE IF H.size[cur] = size_requested
          \/ H.size[cur] >= size_requested + MinFreeSize
  THEN [res |-> "found", node |-> cur]
  ELSE IF i = H.list["free"].len - 1 THEN [res |-> "panic", node |-> NULL]
  ELSE FindFree(H, size_requested, H.node[cur].next, i + 1)

\* the size alloc and dealloc work with
PaddedSize(size) == IF size < MinFreeSize THEN MinFreeSize ELSE size

\* Heap::alloc(layout)
HeapAlloc(size) ==
  /\ ~heap.panicked
  /\ LET size_requested == PaddedSize(size)
         r == FindFree(heap, size_requested, heap.list["free"].head, 0)
         found == r.node
     IN CASE r.res = "OutOfMemory" -> UNCHANGED heap
          [] r.res = "panic" -> heap' = [heap EXCEPT !.panicked = TRUE]
          [] OTHER ->
               LET H1 == WithLinks(heap, unlink_raw(heap, "free", found))
                   free_size == heap.size[found]
                   H2 == IF free_size > size_requested
                         THEN insert_free(H1, found + size_requested,
                                          free_size - size_requested)
                         ELSE H1
               IN heap' = [H2 EXCEPT !.held = @ \cup {<<found, size>>}]
  /\ UNCHANGED heap_rest

\* Heap::dealloc(ptr, layout) of a block allocated before, with its layout
HeapDealloc(ptr, size) ==
  /\ ~heap.panicked
  /\ <<ptr, size>> \in heap.held
  /\ heap' = [insert_free(heap, ptr, PaddedSize(size))
                EXCEPT !.held = @ \ {<<ptr, size>>}]
  /\ UNCHANGED heap_rest

NextHeap ==
  \/ \E size \in HeapSizes : HeapAlloc(size)
  \/ \E ptr \in HeapAddrs, size \in HeapSizes : HeapDealloc(ptr, size)

SpecHeap == Init /\ [][NextHeap]_vars

\* the nodes of the free list, from the head
FreeNodes ==
  LET s == Chain(heap.node, heap.list["free"].head, Cardinality(HeapAddrs))
  IN {s[i] : i \in 1..Len(s)}

\* the bytes inside a free block reachable from the head of the free list
FreeBytes ==
  {b \in HeapStart..(HeapStart + HeapSize - 1) :
     \E n \in FreeNodes : n <= b /\ b < n + heap.size[n]}

\* C19: after any sequence of allocs, each later matched by a dealloc with the
\* identical layout, every byte that was free before is again inside a free
\* block reachable from the head of the free list.
C19_HeapBytesRestored ==
  heap.held = {} => FreeBytes = HeapStart..(HeapStart + HeapSize - 1)

(***************************************************************************)
(* Worker (exec/worker.rs, alloc/const_pool.rs).  One workqueue; its       *)
(* worker thread and one submitting thread.  The operations of the         *)
(* lock-free queue are taken as atomic.                                    *)
(***************************************************************************)
Items == 1..MaxItems
WorkThreads == 2..3
WorkPrios == {1, 2}

\* the state outside the scheduler, the thread positions and the workqueue
work_rest == <<mutex_vars, sem_vars, hist_vars, queue_vars, slice_log, tk,
               held, lq, mq, cp, ga, ext_vars>>

\* WorkqueueBuilder::build: event_register, then the worker thread is
\* spawned with the closure thread_handle.work()
WorkBuild(t, prio) ==
  /\ cpu = "main" /\ wq.event_id = 0
  /\ event_counter < MaxEvents
  /\ t = task_id_counter /\ t \in Threads
  /\ event_counter' = event_counter + 1
  /\ wq' = [wq EXCEPT !.event_id = event_counter + 1, !.worker = t]
  /\ task_id_counter' = task_id_counter + 1
  /\ priority' = [priority EXCEPT ![t] = prio]
  /\ pc' = [pc EXCEPT ![t] = "work_await"]
  /\ LET M == push_back(Mem, Ready(prio), t)
     IN list' = M.list /\ node' = M.node
  /\ UNCHANGED <<kstate, cpu, pendsv, sv_sp, task_running, transition,
                 next_wut, blocking_event, stack_size, stack_ptr, tick,
                 mpu_enabled, mpu_regions>>
  /\ UNCHANGED work_rest

\* ConstPool::try_acquire of the slot i, then Workqueue::submit up to the
\* push_back
WorkSubmit(t, i) ==
  /\ UserCall(t) /\ wq.event_id # 0
  /\ ~wq.lock[i]
  /\ wq.calls < MaxSubmits
  /\ wq' = [wq EXCEPT !.lock[i] = TRUE, !.queue = Append(@, i),
                      !.sub[i] = @ + 1, !.calls = @ + 1]
  /\ pc' = [pc EXCEPT ![t] = "submit_fire"]
  /\ UNCHANGED <<sched_vars, work_rest>>

\* Workqueue::submit: syscall::event_fire(self.event_id.get())
WorkSubmitFire(t) ==
  /\ UserStep(t) /\ pc[t] = "submit_fire"
  /\ DoEventFire(wq.event_id)
  /\ pc' = [pc EXCEPT ![t] = "run"]
  /\ UNCHANGED <<fire_rest, mutex_vars, sem_vars, wake_at, queue_vars,
                 slice_log, late_vars, ext_vars>>

\* Workqueue::work: syscall::event_await(self.event_id.get(), u32::MAX)
WorkAwait(t) ==
  /\ UserStep(t) /\ pc[t] = "work_await"
  /\ event_await(t, wq.event_id)
  /\ pc' = [pc EXCEPT ![t] = "work_pop"]
  /\ UNCHANGED <<await_rest, mutex_vars, sem_vars, hist_vars, queue_vars,
                 slice_log, late_vars, ext_vars>>

\* Workqueue::work: self.work.try_pop_front()
WorkPop(t) ==
  /\ UserStep(t) /\ pc[t] = "work_pop"
  /\ IF wq.queue = <<>>
     THEN pc' = [pc EXCEPT ![t] = "work_await"] /\ UNCHANGED wq
     ELSE /\ pc' = [pc EXCEPT ![t] = "work_process"]
          /\ wq' = [wq EXCEPT !.cur = Head(wq.queue), !.queue = Tail(@)]
  /\ UNCHANGED <<sched_vars, work_rest>>

\* Workqueue::work: work.process() and work.release(); Item::drop stores
\* false to the lock of the slot
WorkProcess(t) ==
  /\ UserStep(t) /\ pc[t] = "work_process"
  /\ wq' = [wq EXCEPT !.done[wq.cur] = @ + 1, !.lock[wq.cur] = FALSE,
                      !.cur = 0]
  /\ pc' = [pc EXCEPT ![t] = "work_pop"]
  /\ UNCHANGED <<sched_vars, work_rest>>

NextWork ==
  \/ \E prio \in WorkPrios : WorkBuild(2, prio)
  \/ \E prio \in WorkPrios : wq.event_id # 0 /\ Spawn(3, prio, 256, 0)
  \/ task_id_counter = 4 /\ Start
  \/ Tick
  \/ tick < MaxTick /\ SysSleep(3, 1)
  \/ SysExit(3)
  \/ \E i \in Items : WorkSubmit(3, i)
  \/ WorkSubmitFire(3)
  \/ WorkAwait(2)
  \/ WorkPop(2)
  \/ WorkProcess(2)
  \/ PendSVEntry(Shallow(task_running))
  \/ SwitchContext

\* every step that is possible is eventually taken: the CPU never stops
SpecWork == Init /\ [][NextWork]_vars /\ WF_vars(NextWork)

\* C21: every work item for which submit returned Ok is eventually processed
\* by the worker thread exactly once and then released back to its
\* const-pool slot, wherever the submit falls relative to the worker's
\* event_await, without needing a later submit.
C21_SubmittedWorkIsProcessed ==
  \A i \in Items :
    (wq.lock[i] /\ wq.sub[i] > wq.done[i])
      ~> (~wq.lock[i] /\ wq.sub[i] = wq.done[i])

(***************************************************************************)
(* System time (time.rs).  The tick counter is two words, TICK_HIGH and    *)
(* TICK_LOW.  The tick exception updates them in two steps; tick_count     *)
(* reads them in three.  tick_count runs in the SVC handler for a thread,  *)
(* and directly in the handler of whatever exception calls it              *)
(* (mode_aware_syscall); the kernel sets the exception priority of PendSV  *)
(* only, so a reader may run below the tick exception (the tick preempts   *)
(* it between any two of its loads) or above it (it preempts the tick      *)
(* between the two stores and runs to completion).                         *)
(***************************************************************************)
WordMod == 2 ^ WordBits
\* u32::MAX
WordMax == WordMod - 1

tick_rest == <<sync_vars, hist_vars, queue_vars, slice_log, wq, held, lq, mq,
               cp, ga, ext_vars>>

\* system_tick_update: the load of TICK_LOW and TICK_HIGH.fetch_add(1)
TickUpdateHigh ==
  /\ kstate = "Running" /\ cpu \in {"thread", "pendsv"}
  /\ tk.pc = "idle" /\ tick < MaxWordTicks
  /\ tk' = [tk EXCEPT !.pc = "low",
                      !.high = IF tk.low = WordMax THEN (@ + 1) % WordMod
                               ELSE @]
  /\ UNCHANGED <<sched_vars, tick_rest>>

\* system_tick_update: TICK_LOW.fetch_add(1) and sched::tick_update
TickUpdateLow ==
  /\ tk.pc = "low"
  /\ tk' = [tk EXCEPT !.pc = "idle", !.low = (@ + 1) % WordMod]
  /\ tick' = tick + 1
  /\ LET r == tick_update(Mem, tick + 1)
     IN /\ list' = r.m.list /\ node' = r.m.node
        /\ pendsv' = (pendsv \/ r.trig)
  /\ UNCHANGED <<kstate, cpu, sv_sp, task_running, task_id_counter,
                 event_counter, priority, transition, next_wut,
                 blocking_event, stack_size, stack_ptr, mpu_enabled,
                 mpu_regions>>
  /\ UNCHANGED tick_rest

\* (high as u64) << 32 | (low as u64)
tick_value(high, low) == high * WordMod + low

\* tick_count below the tick exception: TICK_HIGH.load
ReadHigh ==
  /\ kstate = "Running" /\ tk.pc = "idle"
  /\ tk.rd.pc \in {"idle", "high"}
  /\ tk' = [tk EXCEPT !.rd = [pc |-> "low", high |-> tk.high, low |-> 0,
                              from |-> IF tk.rd.pc = "idle" THEN tick
                                       ELSE tk.rd.from,
                              last |-> IF tk.rd.pc = "idle" THEN tk.ret.val
                                       ELSE tk.rd.last]]
  /\ UNCHANGED <<sched_vars, tick_rest>>

\* tick_count: TICK_LOW.load
ReadLow ==
  /\ tk.pc = "idle" /\ tk.rd.pc = "low"
  /\ tk' = [tk EXCEPT !.rd.pc = "check", !.rd.low = tk.low]
  /\ UNCHANGED <<sched_vars, tick_rest>>

\* tick_count: the second TICK_HIGH.load; equal words end the loop
ReadCheck ==
  /\ tk.pc = "idle" /\ tk.rd.pc = "check"
  /\ IF tk.rd.high = tk.high
     THEN tk' = [tk EXCEPT !.rd.pc = "idle",
                   !.ret = [val |-> tick_value(tk.rd.high, tk.rd.low),
                            from |-> tk.rd.from, to |-> tick,
                            prev |-> tk.rd.last, nested |-> FALSE]]
     ELSE tk' = [tk EXCEPT !.rd.pc = "high"]
  /\ UNCHANGED <<sched_vars, tick_rest>>

\* tick_count above the tick exception: the whole call, at any point of the
\* thread, of the reader below or of system_tick_update
ReadNested ==
  /\ kstate = "Running"
  /\ tk' = [tk EXCEPT
              !.ret = [val |-> tick_value(tk.high, tk.low),
                       from |-> tick,
                       to |-> IF tk.pc = "low" THEN tick + 1 ELSE tick,
                       prev |-> tk.ret.val, nested |-> TRUE]]
  /\ tk' # tk
  /\ UNCHANGED <<sched_vars, tick_rest>>

NextTick ==
  \/ Start
  \/ TickUpdateHigh
  \/ TickUpdateLow
  \/ ReadHigh
  \/ ReadLow
  \/ ReadCheck
  \/ ReadNested

SpecTick == Init /\ [][NextTick]_vars

\* C22: tick_count never returns a torn value: every value it returns equals
\* the tick counter at some instant during the call, and is not less than
\* the value last returned before the call began, whether the reader is interrupted by the tick update or
\* interrupts it, also at the roll-over of the low word.
C22_NoTornRead ==
  /\ tk.ret.from <= tk.ret.val /\ tk.ret.val <= tk.ret.to
  /\ tk.ret.prev <= tk.ret.val

(***************************************************************************)
(* Properties of blocking on a mutex.                                      *)
(***************************************************************************)
\* the threads linked into the waiter list of the mutex's event
MutexWaiters ==
  IF mutex_id = 0 THEN {}
  ELSE {t \in Threads : Pending(mutex_id) \in LocOf(Mem, t)}

\* C23: no unlock is lost, whether it happens before, during or after the
\* caller's failed lock attempt, its event_await call and the following
\* context switch: when the mutex is free, no unlock is under way and no
\* thread that waited has been woken to retry, no thread is left blocked in
\* lock() (it would wait although nobody holds the mutex).
C23_NoUnlockLost ==
  (/\ ~mutex_lock
   /\ \A t \in Threads : pc[t] # "unlock_fire"
   /\ \A t \in Threads : pc[t] = "lock_retry" => t \in MutexWaiters)
    => MutexWaiters = {}

(***************************************************************************)
(* Properties of preemption and of the ready queues.                       *)
(***************************************************************************)
\* C24: whenever a thread becomes ready with a priority strictly higher than
\* that of the running thread (by being spawned, by its sleep expiring, or
\* by an event fire), a deferred context switch is requested.
C24_HigherPriorityReadyPreempts ==
  [][LET M1 == [list |-> list', node |-> node']
     IN (/\ kstate = "Running" /\ task_running' = task_running
         /\ \E t \in ReadyThreads(M1) \ ReadyThreads(Mem) :
              priority'[t] < priority[task_running])
          => pendsv']_vars

\* C25: ready queues are FIFO within a priority.  In every step, each ready
\* queue keeps its threads in their order, new threads enter at the back, and
\* a thread leaves only from the front and only by being selected to run;
\* and a thread that yields (or is preempted) while no other thread of its
\* priority and no thread of a higher priority is ready runs again.
C25_ReadyQueuesFifo ==
  [][LET M1 == [list |-> list', node |-> node']
         selects == cpu # "thread" /\ cpu' = "thread"
     IN /\ \A p \in Priorities :
             LET s == Nodes(Mem, Ready(p))
                 s1 == Nodes(M1, Ready(p))
                 k == IF selects /\ priority[task_running'] = p /\ s # <<>>
                      THEN 1 ELSE 0
             IN /\ Len(s1) >= Len(s) - k
                /\ \A i \in 1..(Len(s) - k) : s1[i] = s[i + k]
                /\ k = 1 => task_running' = s[1]
        /\ (/\ cpu = "pendsv" /\ cpu' = "thread"
            /\ Effective(task_running) = "None"
            /\ \A p \in 0..priority[task_running] : list[Ready(p)].len = 0)
             => task_running' = task_running]_vars

\* before any tick, a user thread runs while the other, of the same priority,
\* which has run and yielded, is the only one in their ready queue
C25_Witness ==
  /\ cpu = "thread" /\ tick = 0 /\ task_running \in UserThreads
  /\ \E u \in UserThreads \ {task_running} :
       /\ priority[u] = priority[task_running]
       /\ Nodes(Mem, Ready(priority[u])) = <<u>>
       /\ stack_ptr[u] = Shallow(u) - PushSize

\* the threads spawned so far, the idle thread included
Spawned == 1..(task_id_counter - 1)

\* the list l holds each of its threads once and counts them right
WellCounted(l) ==
  LET s == Nodes(Mem, l)
  IN /\ Len(s) = list[l].len
     /\ \A i, j \in 1..Len(s) : s[i] = s[j] => i = j

\* C26: after the kernel has started, every spawned thread is at all times
\* in exactly one of: the running slot, the ready queue indexed by its own
\* priority, the sleep queue, the waiter list of exactly one event, or the
\* terminated queue; exactly one thread is running; no context switch, tick
\* or fire drops a thread or places it in two places.
C26_EveryThreadInOnePlace ==
  kstate = "Running" =>
    /\ task_running \in Spawned
    /\ cpu # "panic"
    /\ \A l \in ListIds : WellCounted(l)
    /\ \A t \in Spawned :
         IF t = task_running THEN LocOf(Mem, t) = {}
         ELSE /\ Cardinality(LocOf(Mem, t)) = 1
              /\ \A p \in Priorities :
                   Ready(p) \in LocOf(Mem, t) => p = priority[t]

(***************************************************************************)
(* The sleep specification: four threads of one priority sleep for one to  *)
(* three ticks.                                                            *)
(***************************************************************************)
SleepThreads == 2..(MaxThreads + 1)
SleepTimes == 1..(MaxSleep + 1)

NextSleep ==
  \/ \E t \in SleepThreads : cpu = "main" /\ Spawn(t, 1, 256, 0)
  \/ task_id_counter = MaxThreads + 2 /\ Start
  \/ Tick
  \/ \E t \in SleepThreads, ms \in SleepTimes : SysSleep(t, ms)
  \/ PendSVEntry(Shallow(task_running))
  \/ SwitchContext

SpecSleep == Init /\ [][NextSleep]_vars

\* the threads that went to sleep and have not been woken: those that are
\* neither running nor in a ready queue, a waiter list or the terminated
\* queue
Asleep ==
  {t \in Spawned \ {task_running} : LocOf(Mem, t) \subseteq {Sleeping}}

\* C27: immediately after each tick_update executed at tick count now, every
\* thread whose next_wakeup <= now has been moved from the sleep queue to the
\* ready queue of its own priority and none remains in the sleep queue.
C27_TickWakesAllDue ==
  [][LET M1 == [list |-> list', node |-> node']
     IN tick' = tick + 1 =>
          \A t \in Asleep :
            next_wut[t] <= tick' => LocOf(M1, t) = {Ready(priority[t])}]_vars

(***************************************************************************)
(* Properties of waiting for events.                                       *)
(***************************************************************************)
\* the threads that entered the waiter list of event e and that no fire of e
\* has woken since
Awaiting(w, e) == {w[e][i] : i \in 1..Len(w[e])}

\* C28: a thread that has called event_await on a registered event is, after
\* the ensuing context switch, in that event's waiter list, and it is not
\* selected to run (it is neither running nor in a ready queue) until a fire
\* on that same event moves it to a ready queue; a fire on a different event
\* never wakes it.
C28_AwaitingThreadWaits ==
  [][LET M1 == [list |-> list', node |-> node']
     IN /\ (/\ cpu = "pendsv" /\ cpu' # "pendsv"
            /\ Effective(task_running) = "Blocked")
             => LocOf(M1, task_running)
                  = {Pending(blocking_event[task_running])}
        /\ \A e \in Events : \A t \in Awaiting(waiters', e) :
             /\ task_running' # t
             /\ t \notin ReadyThreads(M1)
             /\ LocOf(M1, t) \subseteq {Pending(e)}]_vars

\* a thread waits in the list of the first event while a fire that did not
\* concern it has woken another thread, which now runs
C28_Witness ==
  /\ cpu = "thread" /\ fire_log.woken = task_running
  /\ task_running \in UserThreads
  /\ \E t \in Awaiting(waiters, 1) :
       /\ LocOf(Mem, t) = {Pending(1)}
       /\ \A i \in 1..Len(fire_log.before) : fire_log.before[i] # t

(***************************************************************************)
(* The firing specification: the threads of the event specification fire   *)
(* the events themselves, by system call.                                  *)
(***************************************************************************)
NextFire ==
  \/ \E t \in EventThreads : cpu = "main" /\ Spawn(t, EventPrio(t), 256, 0)
  \/ EventRegister
  \/ event_counter = MaxEvents /\ Start
  \/ \E t \in EventThreads, id \in Events : SysEventAwait(t, id)
  \/ \E t \in EventThreads, id \in Events : SysEventFire(t, id)
  \/ PendSVEntry(Shallow(task_running))
  \/ SwitchContext

SpecFire == Init /\ [][NextFire]_vars

\* C29: event_fire moves at most one waiter to its ready queue and requests a
\* context switch only if that waiter's priority is strictly higher than the
\* running thread's; when the event has no waiter, or the woken waiter has
\* equal or lower priority, no switch is requested and the firing thread
\* continues to run without being re-queued.  (A step of a running thread
\* that leaves every transition alone is a fire.)
C29_FireSwitchesOnlyForHigherPriority ==
  [][LET M1 == [list |-> list', node |-> node']
         woken == ReadyThreads(M1) \ ReadyThreads(Mem)
     IN (cpu = "thread" /\ cpu' = "thread" /\ transition' = transition)
          => /\ Cardinality(woken) <= 1
             /\ pendsv' =>
                  \E t \in woken : priority[t] < priority[task_running]]_vars

(***************************************************************************)
(* The list specification (mem/linked_list.rs): before the kernel starts,  *)
(* the operations of LinkedList are applied in any order to one list, the  *)
(* one in the slot of the sleep queue, with the nodes of the threads.      *)
(***************************************************************************)
list_rest == <<kstate, cpu, pendsv, sv_sp, task_running, task_id_counter,
               event_counter, priority, transition, next_wut, blocking_event,
               stack_size, stack_ptr, tick, mpu_enabled, mpu_regions,
               sync_vars, hist_vars, queue_vars, slice_log, wq, tk, lq, mq,
               cp, ga, ext_vars>>

\* the nodes linked into the list
Linked == {Nodes(Mem, Sleeping)[i] : i \in 1..Len(Nodes(Mem, Sleeping))}

\* the list memory becomes M; n has been put in (in = TRUE) or taken out
ListResult(M, n, in) ==
  /\ list' = M.list /\ node' = M.node
  /\ held' = IF n = NULL THEN held
             ELSE IF in THEN held \cup {n} ELSE held \ {n}
  /\ UNCHANGED list_rest

ListPushBack(n) ==
  /\ n \notin held \cup Linked
  /\ ListResult(push_back(Mem, Sleeping, n), n, TRUE)

ListPopFront ==
  LET r == pop_front(Mem, Sleeping)
  IN ListResult(r.m, r.out, FALSE)

ListInsert(at, n) ==
  /\ at \in Linked
  /\ n \notin held \cup Linked
  /\ ListResult(insert(Mem, Sleeping, at, n), n, TRUE)

\* insert_when with the criteria of the unit test insert_at_condition:
\* before the first node of a greater id
ListInsertWhen(n) ==
  /\ n \notin held \cup Linked
  /\ ListResult(insert_when(Mem, Sleeping, n, [m \in Threads |-> n < m]),
                n, TRUE)

\* a cursor from the front, moved to the node n, then Cursor::take
ListCursorTake(n) ==
  /\ n \in Linked
  /\ ListResult(unlink_raw(Mem, Sleeping, n), n, FALSE)

NextList ==
  \/ \E n \in Threads : ListPushBack(n)
  \/ ListPopFront
  \/ \E at \in Threads, n \in Threads : ListInsert(at, n)
  \/ \E n \in Threads : ListInsertWhen(n)
  \/ \E n \in Threads : ListCursorTake(n)

SpecList == Init /\ [][NextList]_vars

\* C30: after any sequence of push_back, pop_front, insert, insert_when and
\* cursor take, the nodes reachable from head by next pointers are exactly
\* the nodes inserted and not yet removed, their number equals len(), tail
\* is the last of them, and each node's prev pointer designates its
\* predecessor (null for the head).
C30_ListWellFormed ==
  LET s == Nodes(Mem, Sleeping)
  IN /\ Linked = held
     /\ Len(s) = Cardinality(held)
     /\ list[Sleeping].len = Len(s)
     /\ list[Sleeping].tail = IF s = <<>> THEN NULL ELSE s[Len(s)]
     /\ \A i \in 1..Len(s) :
          node[s[i]].prev = IF i = 1 THEN NULL ELSE s[i - 1]

(***************************************************************************)
(* Properties of the allocators under exhaustion and concurrency.          *)
(***************************************************************************)
\* C31: Heap::alloc with a non-zero size returns Err(OutOfMemory), without
\* panicking and without changing the free list, whenever no free block is
\* either exactly the requested size or at least the requested size plus the
\* minimum free-node size, whether the free list is empty or not.  (A step
\* of the heap after which the same blocks are allocated is an alloc that
\* found no such block.)
C31_NoFitIsOutOfMemory ==
  [][heap'.held = heap.held => heap' = heap]_vars

(***************************************************************************)
(* The lock-free queue (mem/queue/mpmc_linked.rs).  Two contexts call      *)
(* push_front, push_back and try_pop_front; every load, store and          *)
(* compare_exchange is a step of its own.  A node is "out" while a caller  *)
(* owns its Box, "in" from the call of a push until a pop takes it.        *)
(***************************************************************************)
LqNodes == 1..MaxLqNodes

lq_rest == <<sched_vars, sync_vars, hist_vars, queue_vars, slice_log, wq, tk,
             held, mq, cp, ga, ext_vars>>

\* the context c is at position at; a call begins there when c is idle
LqAt(c, at, begins) ==
  \/ lq.ctx[c].pc = at
  \/ begins /\ lq.ctx[c].pc = "idle" /\ lq.calls < MaxLqCalls

\* the call of a push with the node n by the idle context c
LqEnter(L, c, n) ==
  IF L.ctx[c].pc = "idle"
  THEN [L EXCEPT !.ctx[c].node = n, !.owner[n] = "in", !.calls = @ + 1]
  ELSE L

\* push_front: head.load
LqPushFrontLoad(c, n) ==
  /\ LqAt(c, "pf_load", lq.owner[n] = "out")
  /\ lq.ctx[c].pc = "pf_load" => n = lq.ctx[c].node
  /\ lq' = [LqEnter(lq, c, n) EXCEPT !.ctx[c].head = lq.head,
                                     !.ctx[c].pc = "pf_store"]
  /\ UNCHANGED lq_rest

\* push_front: node.next.store(head)
LqPushFrontStore(c) ==
  /\ lq.ctx[c].pc = "pf_store"
  /\ lq' = [lq EXCEPT !.next[lq.ctx[c].node] = lq.ctx[c].head,
                      !.ctx[c].pc = "pf_cas"]
  /\ UNCHANGED lq_rest

\* push_front: head.compare_exchange(head, node)
LqPushFrontCas(c) ==
  /\ lq.ctx[c].pc = "pf_cas"
  /\ lq' = IF lq.head = lq.ctx[c].head
           THEN [lq EXCEPT !.head = lq.ctx[c].node, !.front = TRUE,
                           !.pushed = Append(@, lq.ctx[c].node),
                           !.ctx[c].pc = "push_len"]
           ELSE [lq EXCEPT !.ctx[c].pc = "pf_load"]
  /\ UNCHANGED lq_rest

\* push_back, traverse_to_end: head.load
LqPushBackLoad(c, n) ==
  /\ LqAt(c, "pb_load", lq.owner[n] = "out")
  /\ lq.ctx[c].pc = "pb_load" => n = lq.ctx[c].node
  /\ lq' = [LqEnter(lq, c, n) EXCEPT
              !.ctx[c].head = lq.head,
              !.ctx[c].pc = IF lq.head = NULL THEN "pb_cas_head"
                            ELSE "pb_next"]
  /\ UNCHANGED lq_rest

\* push_back, traverse_to_end: (*node).next.load in the loop
LqPushBackNext(c) ==
  /\ lq.ctx[c].pc = "pb_next"
  /\ LET nx == lq.next[lq.ctx[c].head]
     IN lq' = IF nx = NULL THEN [lq EXCEPT !.ctx[c].pc = "pb_cas_next"]
              ELSE [lq EXCEPT !.ctx[c].head = nx]
  /\ UNCHANGED lq_rest

\* push_back: head.compare_exchange(null, node)
LqPushBackCasHead(c) ==
  /\ lq.ctx[c].pc = "pb_cas_head"
  /\ lq' = IF lq.head = NULL
           THEN [lq EXCEPT !.head = lq.ctx[c].node,
                           !.pushed = Append(@, lq.ctx[c].node),
                           !.ctx[c].pc = "push_len"]
           ELSE [lq EXCEPT !.ctx[c].pc = "pb_load"]
  /\ UNCHANGED lq_rest

\* push_back: back.next.compare_exchange(null, node)
LqPushBackCasNext(c) ==
  /\ lq.ctx[c].pc = "pb_cas_next"
  /\ LET back == lq.ctx[c].head
     IN lq' = IF lq.next[back] = NULL
              THEN [lq EXCEPT !.next[back] = lq.ctx[c].node,
                              !.pushed = Append(@, lq.ctx[c].node),
                              !.ctx[c].pc = "push_len"]
              ELSE [lq EXCEPT !.ctx[c].pc = "pb_load"]
  /\ UNCHANGED lq_rest

\* push_front, push_back: len.fetch_add(1) and return
LqPushLen(c) ==
  /\ lq.ctx[c].pc = "push_len"
  /\ lq' = [lq EXCEPT !.len = @ + 1, !.ctx[c].pc = "idle",
                      !.ctx[c].node = NULL, !.ctx[c].head = NULL]
  /\ UNCHANGED lq_rest

\* try_pop_front: head.load; None when it is null
LqPopLoad(c) ==
  /\ LqAt(c, "po_load", TRUE)
  /\ LET L == IF lq.ctx[c].pc = "idle" THEN [lq EXCEPT !.calls = @ + 1]
              ELSE lq
     IN lq' = IF lq.head = NULL
              THEN [L EXCEPT !.ctx[c].pc = "idle", !.ctx[c].head = NULL]
              ELSE [L EXCEPT !.ctx[c].head = lq.head,
                             !.ctx[c].pc = "po_next"]
  /\ UNCHANGED lq_rest

\* try_pop_front: node.next.load
LqPopNext(c) ==
  /\ lq.ctx[c].pc = "po_next"
  /\ lq' = [lq EXCEPT !.ctx[c].next = lq.next[lq.ctx[c].head],
                      !.ctx[c].pc = "po_cas"]
  /\ UNCHANGED lq_rest

\* try_pop_front: head.compare_exchange(head, next); on success the node is
\* the caller's (history: twice when it was not in the queue)
LqPopCas(c) ==
  /\ lq.ctx[c].pc = "po_cas"
  /\ LET n == lq.ctx[c].head
     IN lq' = IF lq.head = n
              THEN [lq EXCEPT !.head = lq.ctx[c].next,
                              !.popped = Append(@, n),
                              !.twice = @ \/ lq.owner[n] # "in",
                              !.owner[n] = "taken",
                              !.ctx[c].pc = "po_clear"]
              ELSE [lq EXCEPT !.ctx[c].pc = "po_load", !.ctx[c].next = NULL]
  /\ UNCHANGED lq_rest

\* try_pop_front: node.next = AtomicPtr::default()
LqPopClear(c) ==
  /\ lq.ctx[c].pc = "po_clear"
  /\ lq' = [lq EXCEPT !.next[lq.ctx[c].head] = NULL,
                      !.ctx[c].pc = "po_len"]
  /\ UNCHANGED lq_rest

\* try_pop_front: len.fetch_sub(1) and return Some(node)
LqPopLen(c) ==
  /\ lq.ctx[c].pc = "po_len"
  /\ lq' = [lq EXCEPT !.len = @ - 1, !.owner[lq.ctx[c].head] = "out",
                      !.ctx[c].pc = "idle", !.ctx[c].head = NULL,
                      !.ctx[c].next = NULL]
  /\ UNCHANGED lq_rest

NextLq ==
  \/ \E c \in Contexts, n \in LqNodes : LqPushFrontLoad(c, n)
  \/ \E c \in Contexts : LqPushFrontStore(c)
  \/ \E c \in Contexts : LqPushFrontCas(c)
  \/ \E c \in Contexts, n \in LqNodes : LqPushBackLoad(c, n)
  \/ \E c \in Contexts : LqPushBackNext(c)
  \/ \E c \in Contexts : LqPushBackCasHead(c)
  \/ \E c \in Contexts : LqPushBackCasNext(c)
  \/ \E c \in Contexts : LqPushLen(c)
  \/ \E c \in Contexts : LqPopLoad(c)
  \/ \E c \in Contexts : LqPopNext(c)
  \/ \E c \in Contexts : LqPopCas(c)
  \/ \E c \in Contexts : LqPopClear(c)
  \/ \E c \in Contexts : LqPopLen(c)

SpecLq == Init /\ [][NextLq]_vars

\* the nodes reachable from head by next pointers
LqReachable ==
  LET s == Chain([n \in LqNodes |-> [next |-> lq.next[n]]], lq.head,
                 MaxLqNodes + 1)
  IN s

\* C32: under any interleaving of push_back, push_front and try_pop_front,
\* every pushed node is returned by exactly one try_pop_front (none is
\* returned twice; while no operation is in progress, every node pushed and
\* not yet popped is reachable from head exactly once, so none is lost),
\* nodes pushed with push_back alone come out in the order they were pushed,
\* and while no operation is in progress len() equals the number of nodes
\* reachable from head.
C32_QueueKeepsEveryNode ==
  /\ ~lq.twice
  /\ ~lq.front =>
       /\ Len(lq.popped) <= Len(lq.pushed)
       /\ \A i \in 1..Len(lq.popped) : lq.popped[i] = lq.pushed[i]
  /\ (\A c \in Contexts : lq.ctx[c].pc = "idle") =>
       LET s == LqReachable
       IN /\ {s[i] : i \in 1..Len(s)} = {n \in LqNodes : lq.owner[n] = "in"}
          /\ \A i, j \in 1..Len(s) : s[i] = s[j] => i = j
          /\ lq.len = Len(s)

(***************************************************************************)
(* The free list of a pool partition (alloc/pool.rs): the lock-free queue  *)
(* with push_front (push_free_block, from init_from_slice and dealloc) and *)
(* try_pop_front (try_allocate) only.                                      *)
(***************************************************************************)
NextPoolLq ==
  \/ \E c \in Contexts, n \in LqNodes : LqPushFrontLoad(c, n)
  \/ \E c \in Contexts : LqPushFrontStore(c)
  \/ \E c \in Contexts : LqPushFrontCas(c)
  \/ \E c \in Contexts : LqPushLen(c)
  \/ \E c \in Contexts : LqPopLoad(c)
  \/ \E c \in Contexts : LqPopNext(c)
  \/ \E c \in Contexts : LqPopCas(c)
  \/ \E c \in Contexts : LqPopClear(c)
  \/ \E c \in Contexts : LqPopLen(c)

SpecPoolLq == Init /\ [][NextPoolLq]_vars

\* C33: the fixed pool never hands out the same block to two callers: under
\* any interleaving of alloc and dealloc, a block returned by alloc is not
\* returned by another alloc until it has been deallocated.
C33_NoBlockHandedOutTwice == ~lq.twice

(***************************************************************************)
(* The MPSC ring buffer (mem/queue/mpsc_const.rs).  Two producers and the  *)
(* consumer; every atomic access is a step of its own.  A slot is "busy"   *)
(* from the compare_exchange that claims it until its item is written.     *)
(***************************************************************************)
mq_rest == <<sched_vars, sync_vars, hist_vars, queue_vars, slice_log, wq, tk,
             held, lq, cp, ga, ext_vars>>

\* mpsc ConstQueue::free_from_raw
mq_free_from_raw(writer, reader) ==
  IF writer >= reader THEN capacity - (writer - reader)
  ELSE capacity - reader - writer

\* mpsc ConstQueue::free
mq_free == mq_free_from_raw(mq.reader_limit, mq.reader)

\* try_push_back: self.reader.load
MqPushLoadReader(p) ==
  /\ mq.prod[p].pc = "idle" /\ mq.calls < MaxMqPush
  /\ mq' = [mq EXCEPT !.prod[p].reader = mq.reader, !.prod[p].full = FALSE,
                      !.prod[p].pc = "acquire", !.calls = @ + 1]
  /\ UNCHANGED mq_rest

\* write_acquire: staging.fetch_add(1)
MqWriteAcquire(p) ==
  /\ mq.prod[p].pc = "acquire"
  /\ mq' = [mq EXCEPT !.staging = @ + 1, !.prod[p].pc = "load_writer"]
  /\ UNCHANGED mq_rest

\* try_push_back: self.writer.load and the Full check
MqPushLoadWriter(p) ==
  /\ mq.prod[p].pc = "load_writer"
  /\ mq' = IF increment(mq.writer) = mq.prod[p].reader
           THEN [mq EXCEPT !.prod[p].full = TRUE,
                           !.prod[p].pc = "release"]
           ELSE [mq EXCEPT !.prod[p].writer = mq.writer,
                           !.prod[p].pc = "cas"]
  /\ UNCHANGED mq_rest

\* try_push_back: writer.compare_exchange(writer, increment(writer))
MqPushCas(p) ==
  /\ mq.prod[p].pc = "cas"
  /\ mq' = IF mq.writer = mq.prod[p].writer
           THEN [mq EXCEPT !.writer = increment(@),
                           !.data[increment(mq.writer)] = "busy",
                           !.prod[p].pc = "write"]
           ELSE [mq EXCEPT !.prod[p].pc = "load_writer"]
  /\ UNCHANGED mq_rest

\* try_push_back: data[increment(writer)].write(item)
MqPushWrite(p) ==
  /\ mq.prod[p].pc = "write"
  /\ mq' = [mq EXCEPT !.data[increment(mq.prod[p].writer)] = "full",
                      !.prod[p].pc = "release"]
  /\ UNCHANGED mq_rest

\* write_release: self.reader_limit.load
MqReleaseLoadLimit(p) ==
  /\ mq.prod[p].pc = "release"
  /\ mq' = [mq EXCEPT !.prod[p].limit = mq.reader_limit,
                      !.prod[p].pc = "release_writer"]
  /\ UNCHANGED mq_rest

\* write_release: self.writer.load
MqReleaseLoadWriter(p) ==
  /\ mq.prod[p].pc = "release_writer"
  /\ mq' = [mq EXCEPT !.prod[p].writer = mq.writer,
                      !.prod[p].pc = "release_sub"]
  /\ UNCHANGED mq_rest

\* the producer p returns from try_push_back
MqReturn(M, p) ==
  [M EXCEPT !.prod[p].pc = "idle",
            !.ok = IF M.prod[p].full THEN @ ELSE @ + 1]

\* write_release: staging.fetch_sub(1)
MqReleaseSub(p) ==
  /\ mq.prod[p].pc = "release_sub"
  /\ mq' = [mq EXCEPT !.staging = @ - 1, !.prod[p].pc = "release_check"]
  /\ UNCHANGED mq_rest

\* write_release: if self.staging.load() == 0
MqReleaseCheck(p) ==
  /\ mq.prod[p].pc = "release_check"
  /\ mq' = IF mq.staging = 0 THEN [mq EXCEPT !.prod[p].pc = "release_cas"]
           ELSE MqReturn(mq, p)
  /\ UNCHANGED mq_rest

\* write_release: reader_limit.compare_exchange(reader_limit, writer).ok()
MqReleaseCas(p) ==
  /\ mq.prod[p].pc = "release_cas"
  /\ mq' = [mq EXCEPT !.reader_limit = IF @ = mq.prod[p].limit
                                       THEN mq.prod[p].writer ELSE @,
                      !.prod[p].pc = "release_store"]
  /\ UNCHANGED mq_rest

\* write_release: reader_limit.store(writer), and the return
MqReleaseStore(p) ==
  /\ mq.prod[p].pc = "release_store"
  /\ mq' = MqReturn([mq EXCEPT !.reader_limit = mq.prod[p].writer], p)
  /\ UNCHANGED mq_rest

\* try_pop_front: self.reader.load, self.reader_limit.load, the Empty check
\* and the increment
MqPopLoad ==
  /\ mq.cons.pc = "idle"
  /\ mq' = IF mq.reader = mq.reader_limit THEN mq
           ELSE [mq EXCEPT !.cons.reader = increment(mq.reader),
                           !.cons.pc = "read"]
  /\ UNCHANGED mq_rest

\* try_pop_front: data[reader].assume_init() (history: early when the slot
\* is being written)
MqPopRead ==
  /\ mq.cons.pc = "read"
  /\ mq' = [mq EXCEPT !.early = @ \/ mq.data[mq.cons.reader] = "busy",
                      !.cons.pc = "store"]
  /\ UNCHANGED mq_rest

\* try_pop_front: self.reader.store and the return
MqPopStore ==
  /\ mq.cons.pc = "store"
  /\ mq' = [mq EXCEPT !.reader = mq.cons.reader, !.got = @ + 1,
                      !.cons.pc = "idle"]
  /\ UNCHANGED mq_rest

NextMq ==
  \/ \E p \in Contexts : MqPushLoadReader(p)
  \/ \E p \in Contexts : MqWriteAcquire(p)
  \/ \E p \in Contexts : MqPushLoadWriter(p)
  \/ \E p \in Contexts : MqPushCas(p)
  \/ \E p \in Contexts : MqPushWrite(p)
  \/ \E p \in Contexts : MqReleaseLoadLimit(p)
  \/ \E p \in Contexts : MqReleaseLoadWriter(p)
  \/ \E p \in Contexts : MqReleaseSub(p)
  \/ \E p \in Contexts : MqReleaseCheck(p)
  \/ \E p \in Contexts : MqReleaseCas(p)
  \/ \E p \in Contexts : MqReleaseStore(p)
  \/ MqPopLoad
  \/ MqPopRead
  \/ MqPopStore

SpecMq == Init /\ [][NextMq]_vars

\* the slots the consumer takes for written: those after reader up to
\* reader_limit, around the end of the buffer
RECURSIVE MqReadable(_)
MqReadable(r) ==
  IF r = mq.reader_limit THEN {}
  ELSE {increment(r)} \cup MqReadable(increment(r))

\* C34: the consumer never reads a slot that a producer has claimed but not
\* finished writing: reader_limit is never advanced past a slot whose write
\* is still in progress.
C34_NoSlotReadWhileWritten ==
  /\ ~mq.early
  /\ \A i \in MqReadable(mq.reader) : mq.data[i] # "busy"

\* C35: once all producers have returned from try_push_back (staging is 0),
\* reader_limit equals the write index, so every item whose push returned Ok
\* can be popped by the consumer without a further push being needed.
C35_LimitReachesWriter ==
  (mq.staging = 0 /\ \A p \in Contexts : mq.prod[p].pc = "idle")
    => mq.reader_limit = mq.writer

(***************************************************************************)
(* The MPSC ring buffer used by one caller at a time: a call begins only   *)
(* when no other call is in progress.                                      *)
(***************************************************************************)
MqQuiet ==
  mq.cons.pc = "idle" /\ \A p \in Contexts : mq.prod[p].pc = "idle"

NextMqSeq ==
  \/ \E p \in Contexts : MqQuiet /\ MqPushLoadReader(p)
  \/ \E p \in Contexts : MqWriteAcquire(p)
  \/ \E p \in Contexts : MqPushLoadWriter(p)
  \/ \E p \in Contexts : MqPushCas(p)
  \/ \E p \in Contexts : MqPushWrite(p)
  \/ \E p \in Contexts : MqReleaseLoadLimit(p)
  \/ \E p \in Contexts : MqReleaseLoadWriter(p)
  \/ \E p \in Contexts : MqReleaseSub(p)
  \/ \E p \in Contexts : MqReleaseCheck(p)
  \/ \E p \in Contexts : MqReleaseCas(p)
  \/ \E p \in Contexts : MqReleaseStore(p)
  \/ MqQuiet /\ MqPopLoad
  \/ MqPopRead
  \/ MqPopStore

SpecMqSeq == Init /\ [][NextMqSeq]_vars

\* C36: for the ring buffers with N slots, after any sequence of pushes and
\* pops free() equals capacity() (N-1) minus the number of items pushed and
\* not yet popped, including when the write index has wrapped around the end
\* of the buffer and is below the read index.
C36_FreeCountsItems ==
  MqQuiet => mq_free = capacity - (mq.ok - mq.got)


\* the end of the arena of the bump allocator
bump_end == BumpStart + BumpCapacity

\* C37: under any interleaving of concurrent Bump::alloc calls, the blocks
\* returned are pairwise disjoint (each begins at or after the head, behind
\* which all earlier blocks lie, and the head moves to its end), aligned as
\* requested and entirely inside the arena, and alloc fails with OutOfMemory
\* exactly when head + padding + size would exceed the end of the arena
\* (for the head the call loaded or for the head at the time it returns),
\* leaving the head unchanged.
C37_BumpBlocksDisjointAndExact ==
  [][\A c \in Contexts :
       LET layout == bump_ctx[c].layout
           old == bump_ctx[c].old
           padding == align_offset(old, layout[2])
           returns == bump_ctx[c].pc # "idle" /\ bump_ctx'[c].pc = "idle"
       IN /\ (returns /\ bump_log'.op = "alloc") =>
               /\ old + padding >= bump.current
               /\ (old + padding) % layout[2] = 0
               /\ old + padding + layout[1] <= bump_end
               /\ bump'.current = old + padding + layout[1]
          /\ (returns /\ bump_log'.op = "OutOfMemory") =>
               /\ \/ old + padding + layout[1] > bump_end
                  \/ bump.current + align_offset(bump.current, layout[2])
                       + layout[1] > bump_end
               /\ bump'.current = bump.current]_vars

(***************************************************************************)
(* The const pool (alloc/const_pool.rs): ConstPool<T, MaxPoolItems>.  Two  *)
(* contexts call try_acquire concurrently and drop the ConstBoxes they     *)
(* hold; every atomic access is one step.                                  *)
(***************************************************************************)
PoolItems == 1..MaxPoolItems

cp_rest == <<sched_vars, sync_vars, hist_vars, queue_vars, slice_log, wq, tk,
             held, lq, mq, ga, ext_vars>>

\* Item::locked
ItemLocked(i) == cp.lock[i]

\* ConstPool::free
ConstPoolFree == Cardinality({i \in PoolItems : ~ItemLocked(i)})

\* ConstPool::try_acquire: the loop moves on to the next item, and returns
\* None behind the last one
CpContinue(c) ==
  IF cp.ctx[c].i = MaxPoolItems
  THEN [pc |-> "idle", i |-> 0]
  ELSE [pc |-> "locked", i |-> cp.ctx[c].i + 1]

\* ConstPool::try_acquire: the call begins at the first item
CpTryAcquire(c) ==
  /\ cp.ctx[c].pc = "idle"
  /\ cp' = [cp EXCEPT !.ctx[c] = [pc |-> "locked", i |-> 1]]
  /\ UNCHANGED cp_rest

\* ConstPool::try_acquire: `if !i.locked()`
CpLocked(c) ==
  /\ cp.ctx[c].pc = "locked"
  /\ cp' = [cp EXCEPT !.ctx[c] = IF ItemLocked(cp.ctx[c].i)
                                 THEN CpContinue(c)
                                 ELSE [@ EXCEPT !.pc = "cas"]]
  /\ UNCHANGED cp_rest

\* the mutant of Item::try_acquire: the lock is stored without the compare
ItemTryAcquireStore(c) ==
  /\ cp.ctx[c].pc = "cas"
  /\ LET i == cp.ctx[c].i
     IN cp' = [cp EXCEPT !.lock[i] = TRUE, !.boxes[c][i] = @ + 1,
                         !.ctx[c] = [pc |-> "idle", i |-> 0]]
  /\ UNCHANGED cp_rest

\* Item::try_acquire: compare_exchange(false, true); Ok makes a ConstBox of
\* the item, Err makes the loop of ConstPool::try_acquire continue
ItemTryAcquire(c) ==
  /\ cp.ctx[c].pc = "cas"
  /\ LET i == cp.ctx[c].i
     IN IF ~cp.lock[i]
        THEN cp' = [cp EXCEPT !.lock[i] = TRUE, !.boxes[c][i] = @ + 1,
                              !.ctx[c] = [pc |-> "idle", i |-> 0]]
        ELSE cp' = [cp EXCEPT !.ctx[c] = CpContinue(c)]
  /\ UNCHANGED cp_rest

\* ConstBox::drop: drop_in_place of the item runs Item::drop, which stores
\* false to the lock
ConstBoxDrop(c, i) ==
  /\ cp.ctx[c].pc = "idle"
  /\ cp.boxes[c][i] > 0
  /\ cp' = [cp EXCEPT !.lock[i] = FALSE, !.boxes[c][i] = @ - 1]
  /\ UNCHANGED cp_rest

NextCp ==
  \/ \E c \in Contexts : CpTryAcquire(c)
  \/ \E c \in Contexts : CpLocked(c)
  \/ \E c \in Contexts : ItemTryAcquire(c)
  \/ \E c \in Contexts, i \in PoolItems : ConstBoxDrop(c, i)

SpecCp == Init /\ [][NextCp]_vars

\* the ConstBoxes of item i that are alive
CpOwners(i) == {c \in Contexts : cp.boxes[c][i] > 0}

NextSemTry ==
  \/ \E t \in SemThreads : Spawn(t, SemPrio(t), 256, 0)
  \/ SemRegister
  \/ sem_id # 0 /\ Start
  \/ Tick
  \/ \E t \in SemThreads : SysSleep(t, 1)
  \/ \E t \in SemThreads : SemTryAcquire(t)
  \/ \E t \in SemThreads : SemTryAcquireCheck(t)
  \/ \E t \in SemThreads : SemRelease(t)
  \/ \E t \in SemThreads : SemReleaseFire(t)
  \/ PendSVEntry(Shallow(task_running))
  \/ SwitchContext

SpecSemTry == Init /\ [][NextSemTry]_vars

\* Semaphore::available_permits would subtract a larger number from a
\* smaller one
AvailableUnderflows == sem_issued < 0 \/ sem_issued > SemPermits

\* the permits that are issued: the handles that exist, and the permits of
\* the threads whose fetch_add in raw_acquire has found one left and that
\* have not returned yet
PermitsIssued ==
  SumHeld(Threads)
    + Cardinality({t \in SemThreads :
                     pc[t] = "try_check" /\ ~NoneLeft(acq_old[t])})

\* C39: under any interleaving of try_acquire and release, try_acquire
\* succeeds if and only if fewer than `permits` permits are issued to others
\* (it never fails with WouldBlock while a permit is available), and
\* permits_issued never exceeds permits, so that available_permits never
\* underflows.
C39_TryAcquireExact ==
  [][/\ \A t \in SemThreads :
          (pc[t] = "try_check" /\ pc'[t] = "run") =>
            IF permits_held'[t] > permits_held[t]
            THEN PermitsIssued' <= SemPermits
            ELSE PermitsIssued >= SemPermits
     /\ ~AvailableUnderflows']_vars

(***************************************************************************)
(* The global allocator (alloc/wrapper.rs) and Process::init               *)
(* (exec/process.rs).  Processes are initialised during startup, their     *)
(* init closures make requests and may initialise further processes; after *)
(* the start the threads make requests and yield to each other.            *)
(***************************************************************************)
ga_rest == <<sched_vars, sync_vars, hist_vars, queue_vars, slice_log, wq, tk,
             held, lq, mq, cp, irq_vars, await_log, alloc_vars, proc_log>>

\* Wrapper::with_allocator: the process whose allocator is handed to f
\* (NULL: f(None))
with_allocator ==
  IF kstate = "Startup" THEN init_process ELSE ProcessOf(task_running)

\* Process::init up to the call of the closure f
GaProcessInit(p) ==
  /\ cpu = "main"
  /\ IF is_process_registered(p)
     THEN UNCHANGED <<processes, init_process, ga>>
     ELSE /\ processes' = Append(processes, p)
          /\ init_process' = p
          /\ ga' = [ga EXCEPT !.closures = Append(@, p)]
  /\ UNCHANGED ga_rest

\* Process::init after the closure f has returned: KERNEL.end_init_process()
GaEndInitProcess ==
  /\ cpu = "main" /\ ga.closures # <<>>
  /\ init_process' = NULL
  /\ ga' = [ga EXCEPT !.closures = SubSeq(@, 1, Len(@) - 1)]
  /\ UNCHANGED <<processes, ga_rest>>

\* a request to the global allocator, made by the startup code or by the
\* running thread
GaRequest(op) ==
  /\ cpu = "main" \/ \E u \in UserThreads : UserCall(u)
  /\ ga.calls < MaxRequests
  /\ LET a == with_allocator
     IN ga' = [ga EXCEPT
                 !.calls = @ + 1,
                 !.usage = IF op = "alloc" /\ a # NULL
                           THEN [@ EXCEPT ![a] = @ + 1] ELSE @,
                 !.req = [op |-> op, state |-> kstate, served |-> a]]
  /\ UNCHANGED <<processes, init_process, ga_rest>>

\* Wrapper::alloc_handler
alloc_handler == GaRequest("alloc")

\* Wrapper::dealloc_handler; the dealloc of the process allocator (Bump)
\* leaves it as it is
dealloc_handler == GaRequest("dealloc")

GaThreads == 2..3

NextGa ==
  \/ \E p \in Procs : GaProcessInit(p)
  \/ GaEndInitProcess
  \/ alloc_handler
  \/ dealloc_handler
  \/ \E t \in GaThreads : Spawn(t, 1, 256, 0)
  \/ Start
  \/ \E t \in GaThreads : SysYield(t)
  \/ PendSVEntry(Shallow(task_running))
  \/ SwitchContext

SpecGa == Init /\ [][NextGa]_vars

\* the process whose init closure is executing (NULL: none)
InitClosure == IF ga.closures = <<>> THEN NULL ELSE ga.closures[Len(ga.closures)]

\* C40: every request to the global allocator is served from the allocator
\* of exactly one process: during Startup from the process whose init
\* closure is executing (it fails when no process is being initialised),
\* while Running from the process of the thread that is running, and the
\* heap of no other process changes.
C40_RequestServedByOwnProcess ==
  [][ga'.calls > ga.calls =>
       LET owner == IF kstate = "Startup" THEN InitClosure
                    ELSE ProcessOf(task_running)
       IN /\ ga'.req.served = owner
          /\ \A p \in Procs : ga'.usage[p] # ga.usage[p] => p = owner]_vars

====
